---- MODULE Spec2Model ----
(***************************************************************************)
(* Model of the stock_status server (server.js): the Yahoo chart adapter   *)
(* with its result cache and retries, the sequential batch collector, the  *)
(* monthly snapshot store with merge-on-refresh, the symbol override       *)
(* overlay, and the event candidate generation of the events route.        *)
(*                                                                         *)
(* Dates are ISO strings "YYYY-MM-DD" in the code and only ever compared   *)
(* and sorted; they are modelled as the integer YYYYMMDD, whose order is   *)
(* the order of the fixed-width strings.                                   *)
(***************************************************************************)
EXTENDS Integers, Sequences, FiniteSets, TLC

(***************************************************************************)
(* Bounds of the model.                                                    *)
(***************************************************************************)
\* longest series the provider returns / a merge input holds
MaxLen == 2
\* requests served in one behaviour, each by its own handler
MaxRequests == 2
\* override / restore requests served in one behaviour
MaxOverrideOps == 1
\* clock ticks in one behaviour
MaxTicks == 2
\* provider answers that carry a series while requests overlap
MaxAnswers == 1
\* provider answers that carry a series to a single request
MaxBatchAnswers == 2
\* requests with an invalid period in one behaviour
MaxInvalid == 1
\* longest list of news items correlated with an event date
MaxNews == 3
\* longest series of closes given to the advisory
MaxWarnLen == 4
\* longest series of closes scanned for event candidates
MaxEvLen == 3
\* override and restore requests in one behaviour of the overlay alone
MaxOverlayOps == 3
\* news requests answered with items in one behaviour
MaxNewsAnswers == 2
\* longest list of items in the answer to one news request
MaxNewsLen == 1

(***************************************************************************)
(* Program constants.                                                      *)
(***************************************************************************)
CACHE_TTL == 3600000
NEWS_CACHE_TTL == 1800000
\* the clock advances in steps of the time-to-live
TickMs == CACHE_TTL \div 2

\* JavaScript null / undefined / NaN / a non-finite number: every value for
\* which sanitizeNum returns null.  It lies outside the range of the closes.
NullNum == 0 - 1000000

\* config/symbols.js: two of the configured instruments, one without and one
\* with a news symbol; the names are written in ASCII.
items ==
    << [id |-> "kospi", name |-> "KOSPI", symbol |-> "^KS11", newsSymbol |-> ""],
       [id |-> "sp500", name |-> "S&P500", symbol |-> "^GSPC", newsSymbol |-> "SPY"] >>

Ids == {items[i].id : i \in 1..Len(items)}

\* symbols an override request may install: a new one, and one that another
\* instrument already uses
OverrideSymbols == {"AAPL", "^GSPC"}

Last(s) == s[Len(s)]
Front(s) == SubSeq(s, 1, Len(s) - 1)

(***************************************************************************)
(* mergeMonthlyData and its helpers.                                       *)
(***************************************************************************)
\* Map.prototype.set(d.date, d) on a Map kept as its insertion-ordered values:
\* an existing key keeps its position and takes the new value.
MapSet(byDate, d) ==
    IF \E i \in 1..Len(byDate) : byDate[i].date = d.date
    THEN [i \in 1..Len(byDate) |->
              IF byDate[i].date = d.date THEN d ELSE byDate[i]]
    ELSE Append(byDate, d)

\* series.forEach(d => byDate.set(d.date, d))
RECURSIVE ForEachSet(_, _)
ForEachSet(byDate, series) ==
    IF series = <<>> THEN byDate
    ELSE ForEachSet(MapSet(byDate, Head(series)), Tail(series))

\* x placed after every element whose date is <= x.date (stable)
RECURSIVE InsertByDate(_, _)
InsertByDate(sorted, x) ==
    IF sorted = <<>> THEN <<x>>
    ELSE IF Last(sorted).date <= x.date THEN Append(sorted, x)
    ELSE Append(InsertByDate(Front(sorted), x), Last(sorted))

\* Array.prototype.sort((a, b) => a.date.localeCompare(b.date)): stable
RECURSIVE SortByDate(_)
SortByDate(series) ==
    IF series = <<>> THEN <<>>
    ELSE InsertByDate(SortByDate(Front(series)), Last(series))

\* the first loop's body: existing[id] then fresh[id] through one Map
\* a merge in which the fresh series replaces the existing one
ReplaceSeries(e, f) == IF f = <<>> THEN SortByDate(ForEachSet(<<>>, e))
                       ELSE SortByDate(ForEachSet(<<>>, f))

MergeSeries(e, f) == SortByDate(ForEachSet(ForEachSet(<<>>, e), f))

\* existing, fresh: functions from instrument ids to series
mergeMonthlyData(existing, fresh) ==
    [id \in (DOMAIN existing) \cup (DOMAIN fresh) |->
        IF id \in DOMAIN existing
        THEN MergeSeries(existing[id],
                         IF id \in DOMAIN fresh THEN fresh[id] ELSE <<>>)
        ELSE SortByDate(fresh[id])]

Dates(series) == {series[i].date : i \in 1..Len(series)}

Records(series) == {series[i] : i \in 1..Len(series)}

(***************************************************************************)
(* Request parameters, validation and date utilities.                      *)
(***************************************************************************)
\* A route parameter is a string; it is modelled as its characters, a digit
\* as 0..9 and any other character as -1.
YearParams == { <<1, 9, 9, 9>>, <<2, 0, 0, 0>>, <<2, 1, 0, 1>>, <<-1>> }
MonthParams == { <<0>>, <<1>>, <<2>>, <<1, 3>> }

NaN == 0 - 1

\* parseInt(str, 10): the number written by the leading digits, NaN when the
\* string does not start with a digit
RECURSIVE LeadingDigits(_, _)
LeadingDigits(str, acc) ==
    IF str = <<>> \/ Head(str) < 0 THEN acc
    ELSE LeadingDigits(Tail(str), acc * 10 + Head(str))

parseInt(str) ==
    IF str = <<>> \/ Head(str) < 0 THEN NaN ELSE LeadingDigits(str, 0)

\* a validation whose upper limit of the year is off by one
validateYearMonthLoose(year, month) ==
    LET y == parseInt(year)
        m == parseInt(month)
    IN  IF y = NaN \/ m = NaN \/ y < 2000 \/ y > 2101 \/ m < 1 \/ m > 12
        THEN <<>>
        ELSE << [year |-> y, month |-> m] >>

\* validateYearMonth: <<>> for null, else << [year, month] >>
validateYearMonth(year, month) ==
    LET y == parseInt(year)
        m == parseInt(month)
    IN  IF y = NaN \/ m = NaN \/ y < 2000 \/ y > 2100 \/ m < 1 \/ m > 12
        THEN <<>>
        ELSE << [year |-> y, month |-> m] >>

\* new Date(year, month, 0).getDate()
DaysInMonth(year, month) ==
    IF month \in {4, 6, 9, 11} THEN 30
    ELSE IF month # 2 THEN 31
    ELSE IF (year % 4 = 0 /\ year % 100 # 0) \/ year % 400 = 0 THEN 29
    ELSE 28

\* formatYMD(new Date(year, month - 1, day))
formatYMD(year, month, day) == year * 10000 + month * 100 + day

\* getMonthRange, both ends formatted
getMonthRange(year, month) ==
    [start |-> formatYMD(year, month, 1),
     end   |-> formatYMD(year, month, DaysInMonth(year, month))]

getPeriodKey(year, month) == year * 100 + month

\* getCacheKey(symbol, p1, p2)
getCacheKey(symbol, p1, p2) == <<symbol, p1, p2>>

(***************************************************************************)
(* What the provider may answer to one chart request.                      *)
(***************************************************************************)
\* data points of a chart answer: a trading day of January 2000 with two
\* different closes, a day without a close, and a day of February 2000
Points ==
    { [date |-> 20000103, close |-> 100],
      [date |-> 20000103, close |-> 103],
      [date |-> 20000104, close |-> NullNum],
      [date |-> 20000201, close |-> 100] }

SeqsUpTo(S, n) == UNION { [1..k -> S] : k \in 0..n }

ProviderSeries == SeqsUpTo(Points, MaxLen)

\* sanitizeNum
sanitizeNum(val) == IF val = NullNum THEN NullNum ELSE val

\* the parsing loop of fetchChartFromYahoo: a point is emitted only when its
\* close is sanitizable
parseChart(points) == SelectSeq(points, LAMBDA pt : sanitizeNum(pt.close) # NullNum)

(***************************************************************************)
(* State.                                                                  *)
(***************************************************************************)
VARIABLES
    symbolOverrides,     \* id -> <<>> or << [symbol, name] >>
    cache,               \* result cache: key -> [data, expires]
    dailyFileCache,      \* snapshot store: period key -> [year, month, data]
    cacheSaveScheduled,  \* a save callback is pending
    now,                 \* Date.now()
    calls,               \* the request handlers in progress
    budget,              \* what the environment may still do in this behaviour
    returnedNR,          \* periods for which a non-refresh getMonthlyData returned
    newsCache,           \* news cache: key -> [data, expires]
    overrideLog,         \* the responses of the override and restore routes
    disk,                \* what CACHE_FILE holds
    saving,              \* save callbacks queued, saves between mkdir and writeFile
    fn                   \* a pure function applied to drawn inputs

vars == << symbolOverrides, cache, dailyFileCache, cacheSaveScheduled, now,
           calls, budget, returnedNR, newsCache, overrideLog, disk, saving,
           fn >>

Calls == 1..MaxRequests

(***************************************************************************)
(* Symbol overrides as a read-time overlay.                                *)
(***************************************************************************)
EffectiveItems(overrides) ==
    [i \in 1..Len(items) |->
        LET o == overrides[items[i].id]
        IN  IF o # <<>> /\ o[1].symbol # ""
            THEN [id |-> items[i].id, name |-> o[1].name, symbol |-> o[1].symbol,
                  newsSymbol |-> items[i].newsSymbol, overridden |-> TRUE]
            ELSE [id |-> items[i].id, name |-> items[i].name, symbol |-> items[i].symbol,
                  newsSymbol |-> items[i].newsSymbol, overridden |-> FALSE]]

getEffectiveItems == EffectiveItems(symbolOverrides)

isSymbolAllowed(symbol) ==
    \E i \in 1..Len(items) : getEffectiveItems[i].symbol = symbol

(***************************************************************************)
(* Event candidates (GET /api/events/:year/:month).  changePct is the      *)
(* rational num / den with num = (curr - prev) * 100 and den = prev; the   *)
(* code computes it in double precision.                                   *)
(***************************************************************************)
Abs(x) == IF x < 0 THEN 0 - x ELSE x

\* Math.abs(changePct) > 3
AbsAbove3(change) == Abs(change.num) > 3 * Abs(change.den)

\* Math.abs(changePct) >= 3
AbsAtLeast3(change) == Abs(change.num) >= 3 * Abs(change.den)

\* changePct > 0
Positive(change) ==
    \/ change.num > 0 /\ change.den > 0
    \/ change.num < 0 /\ change.den < 0

\* the candidates of one instrument: the inner loop, from index i to the end
RECURSIVE ItemCandidates(_, _, _)
ItemCandidates(item, data, i) ==
    IF i > Len(data) THEN <<>>
    ELSE LET prev == data[i - 1].close
             curr == data[i].close
             change == [num |-> (curr - prev) * 100, den |-> prev]
             rest == ItemCandidates(item, data, i + 1)
         IN  IF prev = NullNum \/ curr = NullNum \/ prev = 0 THEN rest
             ELSE IF AbsAtLeast3(change)
             THEN << [date |-> data[i].date, item |-> item.name, id |-> item.id,
                      newsSymbol |-> item.newsSymbol, i |-> i, change |-> change,
                      type |-> IF Positive(change) THEN "rise" ELSE "fall"] >> \o rest
             ELSE rest

\* candidateEvents: the outer loop over the effective items, from item k on
RECURSIVE candidateEvents(_, _, _)
candidateEvents(effective, raw, k) ==
    IF k > Len(effective) THEN <<>>
    ELSE ItemCandidates(effective[k],
                        IF effective[k].id \in DOMAIN raw
                        THEN raw[effective[k].id] ELSE <<>>, 2)
             \o candidateEvents(effective, raw, k + 1)

(***************************************************************************)
(* News correlation and the sell-timing advisory of the events route.      *)
(***************************************************************************)
\* days from 2000-01-01 to the first day of year
DaysBeforeYear(year) ==
    LET leaps(y) == (y \div 4) - (y \div 100) + (y \div 400)
    IN  (year - 2000) * 365 + leaps(year - 1) - leaps(1999)

RECURSIVE DaysBeforeMonth(_, _)
DaysBeforeMonth(year, month) ==
    IF month <= 1 THEN 0
    ELSE DaysBeforeMonth(year, month - 1) + DaysInMonth(year, month - 1)

\* new Date(d).getTime() / (24 * 60 * 60 * 1000) of an ISO date, counted from
\* 2000-01-01
DayNumber(date) ==
    LET year == date \div 10000
        month == (date \div 100) % 100
        day == date % 100
    IN  DaysBeforeYear(year) + DaysBeforeMonth(year, month) + day - 1

\* buildMarketNewsByDate: the Map as the sequence of its entries, in
\* insertion order
RECURSIVE buildMarketNewsByDate(_)
buildMarketNewsByDate(marketNewsList) ==
    IF marketNewsList = <<>> THEN <<>>
    ELSE LET byDate == buildMarketNewsByDate(Front(marketNewsList))
             n == Last(marketNewsList)
         IN  IF \E i \in 1..Len(byDate) : byDate[i].date = n.date
             THEN [i \in 1..Len(byDate) |->
                      IF byDate[i].date = n.date
                      THEN [byDate[i] EXCEPT !.headlines = Append(@, n.headline)]
                      ELSE byDate[i]]
             ELSE Append(byDate, [date |-> n.date, headlines |-> << n.headline >>])

maxDays == 14

\* a loop that keeps the last date within the window instead of the nearest
RECURSIVE LastHeadlineInWindow(_, _, _, _, _)
LastHeadlineInWindow(marketByDate, eventDate, k, best, bestDiff) ==
    IF k > Len(marketByDate) THEN best
    ELSE LET e == marketByDate[k]
             diff == Abs(DayNumber(e.date) - DayNumber(eventDate))
         IN  IF e.headlines # <<>> /\ diff <= maxDays
             THEN LastHeadlineInWindow(marketByDate, eventDate, k + 1,
                                       << e.headlines[1] >>, diff)
             ELSE LastHeadlineInWindow(marketByDate, eventDate, k + 1, best, bestDiff)

\* the loop of getMarketHeadlineForDate from entry k on; best is <<>> for
\* null, bestDiff is -1 for Infinity
RECURSIVE NearestHeadline(_, _, _, _, _)
NearestHeadline(marketByDate, eventDate, k, best, bestDiff) ==
    IF k > Len(marketByDate) THEN best
    ELSE LET e == marketByDate[k]
             diff == Abs(DayNumber(e.date) - DayNumber(eventDate))
         IN  IF /\ e.headlines # <<>>
                /\ diff <= maxDays
                /\ (bestDiff < 0 \/ diff < bestDiff)
             THEN NearestHeadline(marketByDate, eventDate, k + 1,
                                  << e.headlines[1] >>, diff)
             ELSE NearestHeadline(marketByDate, eventDate, k + 1, best, bestDiff)

\* getMarketHeadlineForDate: <<>> for null, else << headline >>
getMarketHeadlineForDate(marketByDate, eventDate) ==
    LET exact == {i \in 1..Len(marketByDate) : marketByDate[i].date = eventDate}
    IN  IF \E i \in exact : marketByDate[i].headlines # <<>>
        THEN << marketByDate[CHOOSE i \in exact : TRUE].headlines[1] >>
        ELSE NearestHeadline(marketByDate, eventDate, 1, <<>>, 0 - 1)

\* r <= k and r >= k for the double r = num / den * 100 (change.num already
\* holds the factor 100) and an integer k: a zero den gives an infinity or NaN
RatLeq(r, k) ==
    IF r.den > 0 THEN r.num <= k * r.den
    ELSE IF r.den < 0 THEN r.num >= k * r.den
    ELSE r.num < 0

RatGeq(r, k) ==
    IF r.den > 0 THEN r.num >= k * r.den
    ELSE IF r.den < 0 THEN r.num <= k * r.den
    ELSE r.num > 0

\* Math.max(...closes.slice(0, idx + 1))
RECURSIVE MaxUpTo(_, _)
MaxUpTo(closes, idx) ==
    IF idx = 1 THEN closes[1]
    ELSE LET m == MaxUpTo(closes, idx - 1)
         IN  IF closes[idx] > m THEN closes[idx] ELSE m

\* the consecDown loop, from index i downwards
RECURSIVE ConsecDown(_, _)
ConsecDown(closes, i) ==
    IF i >= 2 /\ closes[i] < closes[i - 1] THEN 1 + ConsecDown(closes, i - 1) ELSE 0

\* the rows for a fall, in the order of the code
FallAdvisory(changePct, consecDown, cumulChange, fromHigh) ==
    IF RatLeq(changePct, 0 - 7) /\ consecDown >= 2 THEN "strongest-sell"
    ELSE IF RatLeq(changePct, 0 - 5) /\ consecDown >= 2 THEN "sell-trend"
    ELSE IF RatLeq(cumulChange, 0 - 5) /\ RatLeq(fromHigh, 0 - 5) THEN "stop-loss"
    ELSE IF consecDown >= 3 THEN "caution-streak"
    ELSE IF RatLeq(changePct, 0 - 5) THEN "caution-drop"
    ELSE IF RatLeq(cumulChange, 0 - 3) THEN "review"
    ELSE "volatility"

\* the rows for a rise
RiseAdvisory(changePct, fromHigh) ==
    IF RatGeq(changePct, 7) THEN "partial-profit"
    ELSE IF RatGeq(fromHigh, 0 - 1) /\ RatGeq(changePct, 5) THEN "profit-taking"
    ELSE "hold"

\* getSellTimingWarning; type is "fall" or "rise"
getSellTimingWarning(data, evtDate, changePct, type) ==
    IF Len(data) < 2 THEN "-"
    ELSE
    LET sorted == SortByDate(data)
        all == [i \in 1..Len(sorted) |-> sorted[i].close]
        closes == SelectSeq(all, LAMBDA v : v # NullNum)
        found == {i \in 1..Len(sorted) : sorted[i].date = evtDate}
    IN  IF Len(closes) < 2 \/ found = {} THEN "-"
        ELSE
        LET idx == CHOOSE i \in found : \A j \in found : i <= j
        IN  IF idx > Len(closes) THEN "-"
            ELSE
            LET curr == closes[idx]
                monthFirst == closes[1]
                monthHigh == MaxUpTo(closes, idx)
                consecDown == ConsecDown(closes, idx)
                cumulChange == [num |-> (curr - monthFirst) * 100, den |-> monthFirst]
                fromHigh == [num |-> (curr - monthHigh) * 100, den |-> monthHigh]
            IN  IF type = "fall"
                THEN FallAdvisory(changePct, consecDown, cumulChange, fromHigh)
                ELSE IF type = "rise" THEN RiseAdvisory(changePct, fromHigh)
                ELSE "-"

(***************************************************************************)
(* The snapshot store on disk.  A file is [kind, value]: missing,          *)
(* unreadable, malformed (not JSON), JSON null, a JSON number, the JSON    *)
(* array [], or a JSON object, whose value is a store.                     *)
(***************************************************************************)
NoFile == [kind |-> "missing", value |-> << >>]

NotStores ==
    { [kind |-> k, value |-> << >>] :
          k \in {"missing", "unreadable", "malformed", "null", "number", "array"} }

\* JSON.stringify(dailyFileCache) as written by the save callback
StoreFile(store) == [kind |-> "object", value |-> store]

\* a load that lets an error other than ENOENT through
loadRethrows(file) ==
    IF file.kind = "object"
    THEN [threw |-> FALSE, warned |-> FALSE, store |-> file.value]
    ELSE [threw |-> file.kind \in {"unreadable", "malformed"},
          warned |-> FALSE, store |-> << >>]

\* loadDailyCacheFromFile on an empty dailyFileCache: whether it threw,
\* whether it logged a warning, the store after it
loadDailyCacheFromFile(file) ==
    IF file.kind = "missing"
    THEN [threw |-> FALSE, warned |-> FALSE, store |-> << >>]
    ELSE IF file.kind \in {"unreadable", "malformed"}
    THEN [threw |-> FALSE, warned |-> TRUE, store |-> << >>]
    ELSE IF file.kind \in {"null", "number"}
    THEN [threw |-> FALSE, warned |-> FALSE, store |-> << >>]
    ELSE [threw |-> FALSE, warned |-> FALSE, store |-> file.value]

\* the saves in progress: save callbacks queued by setImmediate, callbacks
\* waiting for their fs.mkdir, the contents handed to fs.writeFile calls
\* that have not completed, whether two of those calls have overlapped
NoSaving == [queued |-> 0, mkdir |-> 0, writes |-> << >>, raced |-> FALSE]

\* a file that is not JSON
Torn == [kind |-> "malformed", value |-> << >>]

\* a schedule that does not look at cacheSaveScheduled
scheduleAlways ==
    /\ cacheSaveScheduled' = TRUE
    /\ saving' = [saving EXCEPT !.queued = @ + 1]

\* scheduleSaveDailyCache up to setImmediate
scheduleSaveDailyCache ==
    /\ cacheSaveScheduled' = TRUE
    /\ saving' = IF cacheSaveScheduled THEN saving
                 ELSE [saving EXCEPT !.queued = @ + 1]

(***************************************************************************)
(* Request handlers.  A handler runs from one suspension on real I/O (a    *)
(* provider answer, a timer) to the next without interleaving.             *)
(***************************************************************************)
EmptyData == [id \in Ids |-> <<>>]

NoFetch ==
    [symbol |-> "", overrides |-> [id \in Ids |-> <<>>], fresh |-> FALSE,
     reqs |-> 0, waits |-> 0, err |-> "", end |-> "none", data |-> <<>>]

NoResponse ==
    [status |-> "none", cause |-> "", data |-> << >>, items |-> <<>>,
     failed |-> <<>>, candidates |-> <<>>, events |-> <<>>]

\* messages of the errors that end one attempt of fetchChartFromYahoo: 429
\* or Too Many Requests and the timeout of the request, which
\* toUserFriendlyCause has a text for (as it has for a body over
\* MAX_RESPONSE_SIZE), and a status other than 200, which it has none for
\* (as it has none for a body that is not JSON)
AttemptErrors == {"RATE_LIMITED", "TIMEOUT", "HTTP 500"}

\* toUserFriendlyCause: the text shown for a cause
toUserFriendlyCause(errMsg) ==
    IF errMsg = "RATE_LIMITED" THEN "RateLimitedText"
    ELSE IF errMsg = "TIMEOUT" THEN "TimeoutText"
    ELSE IF errMsg \in {"ECONNREFUSED", "ENOTFOUND"} THEN "ConnectText"
    ELSE IF errMsg = "ResponseTooLarge" THEN "TooLargeText"
    ELSE errMsg

\* fetchMarketNews has not been called: the request it is at (1 market-news,
\* 2 news, 3.. company-news of US_MARKET_NEWS_SYMBOLS), allNews, the requests
\* issued, the stage of the request before the one in flight when that one
\* ended without an array (0 otherwise), what it returned
NoNews ==
    [stage |-> 0, allNews |-> <<>>, reqs |-> 0, failed |-> 0, result |-> <<>>]

IdleCall ==
    [pc |-> "idle", route |-> "none", yearP |-> <<>>, monthP |-> <<>>,
     year |-> 0, month |-> 0, forceRefresh |-> FALSE, cached |-> <<>>,
     batch |-> <<>>, idx |-> 0, retry |-> 0, wait |-> 0,
     raw |-> << >>, failed |-> <<>>, ends |-> <<>>, requested |-> FALSE,
     f |-> NoFetch, afterReturn |-> FALSE, news |-> NoNews, res |-> NoResponse]

\* obj[key] = value on a plain object
SetKey(obj, key, value) ==
    [k \in (DOMAIN obj) \cup {key} |-> IF k = key THEN value ELSE obj[k]]

\* a lookup that never finds a snapshot
getCachedMonthlyMiss(year, month) == <<>>

\* getCachedMonthly: <<>> for null, else << data >>
getCachedMonthly(year, month) ==
    LET key == getPeriodKey(year, month)
    IN  IF key \in DOMAIN dailyFileCache
        THEN << dailyFileCache[key].data >>
        ELSE <<>>

\* the result-cache key of a handler's chart request for symbol
ChartKey(r, symbol) ==
    getCacheKey(symbol, getMonthRange(r.year, r.month).start,
                getMonthRange(r.year, r.month).end)

\* a fetch that looks into the result cache before it checks the whitelist
fetchChartCacheFirst(r, symbol) ==
    LET key == getCacheKey(symbol, getMonthRange(r.year, r.month).start,
                           getMonthRange(r.year, r.month).end)
        valid == key \in DOMAIN cache /\ cache[key].expires > now
        log == [symbol |-> symbol, overrides |-> symbolOverrides, fresh |-> valid,
                reqs |-> 0, waits |-> 0, err |-> "", end |-> "pending",
                data |-> <<>>]
    IN  IF valid
        THEN [r EXCEPT !.pc = "returned",
                       !.f = [log EXCEPT !.end = "hit", !.data = cache[key].data]]
        ELSE IF ~isSymbolAllowed(symbol)
        THEN [r EXCEPT !.pc = "threw", !.f = [log EXCEPT !.end = "DisallowedSymbol"]]
        ELSE [r EXCEPT !.pc = "inflight", !.retry = 0, !.requested = TRUE,
                       !.f = [log EXCEPT !.reqs = 1]]

\* a fetch that serves an entry of the result cache whatever its age
fetchChartNoExpiry(r, symbol) ==
    LET key == ChartKey(r, symbol)
        valid == key \in DOMAIN cache
        log == [symbol |-> symbol, overrides |-> symbolOverrides, fresh |-> valid,
                reqs |-> 0, waits |-> 0, err |-> "", end |-> "pending",
                data |-> <<>>]
    IN  IF ~isSymbolAllowed(symbol)
        THEN [r EXCEPT !.pc = "threw", !.f = [log EXCEPT !.end = "DisallowedSymbol"]]
        ELSE IF valid
        THEN [r EXCEPT !.pc = "returned",
                       !.f = [log EXCEPT !.end = "hit", !.data = cache[key].data]]
        ELSE [r EXCEPT !.pc = "inflight", !.retry = 0, !.requested = TRUE,
                       !.f = [log EXCEPT !.reqs = 1]]

\* fetchChartFromYahoo from its call up to its first suspension (a provider
\* request in flight), its return (a result-cache hit) or its throw
fetchChartFromYahoo(r, symbol) ==
    LET key == ChartKey(r, symbol)
        valid == key \in DOMAIN cache /\ cache[key].expires > now
        log == [symbol |-> symbol, overrides |-> symbolOverrides, fresh |-> valid,
                reqs |-> 0, waits |-> 0, err |-> "", end |-> "pending",
                data |-> <<>>]
    IN  IF ~isSymbolAllowed(symbol)
        THEN [r EXCEPT !.pc = "threw", !.f = [log EXCEPT !.end = "DisallowedSymbol"]]
        ELSE IF valid
        THEN [r EXCEPT !.pc = "returned",
                       !.f = [log EXCEPT !.end = "hit", !.data = cache[key].data]]
        ELSE [r EXCEPT !.pc = "inflight", !.retry = 0, !.requested = TRUE,
                       !.f = [log EXCEPT !.reqs = 1]]

\* the day of the server's clock while requests are served: after the
\* periods that are asked for
ServerToday == [year |-> 2000, month |-> 3, day |-> 1]

\* a window whose upper bound is the last day of the month whatever the day
MonthEndUncapped(year, month, today) ==
    formatYMD(year, month, DaysInMonth(year, month))

\* monthEnd of getMonthlyData: formatYMD(now) in the current month, else
\* formatYMD(new Date(year, month, 0))
MonthEnd(year, month, today) ==
    IF year = today.year /\ month = today.month
    THEN formatYMD(today.year, today.month, today.day)
    ELSE formatYMD(year, month, DaysInMonth(year, month))

\* the window filter and sort of getMonthlyData on the day today
WindowFilter(year, month, today, series) ==
    LET monthStart == formatYMD(year, month, 1)
        monthEnd == MonthEnd(year, month, today)
    IN  SortByDate(SelectSeq(series,
            LAMBDA d : d.date >= monthStart /\ d.date <= monthEnd))

\* what getMonthlyData saves on the day today once the batch is complete
ToSaveOn(r, today) ==
    LET results == [id \in DOMAIN r.raw |->
                       WindowFilter(r.year, r.month, today, r.raw[id])]
    IN  IF r.forceRefresh /\ r.cached # <<>>
        THEN mergeMonthlyData(r.cached[1], results)
        ELSE results

FilterWindow(r, series) == WindowFilter(r.year, r.month, ServerToday, series)

ToSave(r) == ToSaveOn(r, ServerToday)

US_MARKET_NEWS_SYMBOLS == << "AAPL", "NVDA", "SPY", "MSFT" >>

\* the requests of one fetchMarketNews call: market-news, news, and
\* company-news of every symbol of US_MARKET_NEWS_SYMBOLS
NewsStages == 2 + Len(US_MARKET_NEWS_SYMBOLS)

\* parsed news items a news request may be answered with: the day after the
\* first trading day of January 2000, a day later in the month, a day of
\* February 2000
NewsItems ==
    { [date |-> 20000104, headline |-> "a"],
      [date |-> 20000120, headline |-> "b"],
      [date |-> 20000201, headline |-> "c"] }

NewsLists == SeqsUpTo(NewsItems, MaxNewsLen)

\* the key of the news cache for the period of a handler
NewsKey(r) ==
    << "market", formatYMD(r.year, r.month, 1),
       formatYMD(r.year, r.month, DaysInMonth(r.year, r.month)) >>

\* a filter that keeps every item
DedupeNone(allNews) == allNews

\* the filter through the Set seen of fetchMarketNews: the first occurrence
\* of every (date, headline)
RECURSIVE DedupeNews(_)
DedupeNews(allNews) ==
    IF allNews = <<>> THEN <<>>
    ELSE LET result == DedupeNews(Front(allNews))
             n == Last(allNews)
         IN  IF \E i \in 1..Len(result) : result[i] = n
             THEN result
             ELSE Append(result, n)

\* an events loop that keeps a candidate only when a headline was found
RECURSIVE EventsWithHeadline(_, _, _, _)
EventsWithHeadline(candidates, raw, marketByDate, k) ==
    IF k > Len(candidates) THEN <<>>
    ELSE LET ev == candidates[k]
             marketHeadline == getMarketHeadlineForDate(marketByDate, ev.date)
             itemData == IF ev.id \in DOMAIN raw THEN raw[ev.id] ELSE <<>>
             rest == EventsWithHeadline(candidates, raw, marketByDate, k + 1)
         IN  IF marketHeadline = <<>> THEN rest
             ELSE << [date |-> ev.date, item |-> ev.item, change |-> ev.change,
                      type |-> ev.type, newsHeadline |-> marketHeadline,
                      sellWarning |->
                          getSellTimingWarning(itemData, ev.date, ev.change,
                                               ev.type)] >> \o rest

\* the events loop of the route over candidateEvents, from candidate k on
RECURSIVE EventsOf(_, _, _, _)
EventsOf(candidates, raw, marketByDate, k) ==
    IF k > Len(candidates) THEN <<>>
    ELSE LET ev == candidates[k]
             marketHeadline == getMarketHeadlineForDate(marketByDate, ev.date)
             itemData == IF ev.id \in DOMAIN raw THEN raw[ev.id] ELSE <<>>
             rest == EventsOf(candidates, raw, marketByDate, k + 1)
         IN  IF ev.newsSymbol = "" THEN rest
             ELSE << [date |-> ev.date, item |-> ev.item, change |-> ev.change,
                      type |-> ev.type, newsHeadline |-> marketHeadline,
                      sellWarning |->
                          getSellTimingWarning(itemData, ev.date, ev.change,
                                               ev.type)] >> \o rest

\* byDate of the route: the events grouped by date, the dates in the order
\* of their first event
RECURSIVE GroupByDate(_)
GroupByDate(events) ==
    IF events = <<>> THEN <<>>
    ELSE LET byDate == GroupByDate(Front(events))
             e == Last(events)
         IN  IF \E i \in 1..Len(byDate) : byDate[i].date = e.date
             THEN [i \in 1..Len(byDate) |->
                      IF byDate[i].date = e.date
                      THEN [byDate[i] EXCEPT !.events = Append(@, e)]
                      ELSE byDate[i]]
             ELSE Append(byDate, [date |-> e.date, events |-> << e >>])

\* the events route from the return of fetchMarketNews to res.json
EventsResponse(r, marketNews) ==
    [r EXCEPT !.pc = "done",
              !.news = [r.news EXCEPT !.result = marketNews, !.failed = 0],
              !.res = [r.res EXCEPT
                          !.status = "ok",
                          !.events =
                              GroupByDate(EventsOf(r.res.candidates, r.res.data,
                                                   buildMarketNewsByDate(marketNews),
                                                   1))]]

\* fetchMarketNews(monthStart, monthEnd, { skipCache: forceRefresh }) from its
\* call up to its first request in flight or its return
fetchMarketNews(r) ==
    LET key == NewsKey(r)
    IN  IF /\ ~r.forceRefresh
           /\ key \in DOMAIN newsCache
           /\ newsCache[key].expires > now
        THEN EventsResponse(r, newsCache[key].data)
        ELSE IF ~budget.apiKey
        THEN EventsResponse(r, <<>>)
        ELSE [r EXCEPT !.pc = "news",
                       !.news = [NoNews EXCEPT !.stage = 1, !.reqs = 1]]

\* the response of the route once getMonthlyData has returned data, failed:
\* res.json of the daily and update routes; the candidate loop of the events
\* route and its call of fetchMarketNews
RouteResponse(r, data, failed) ==
    IF r.route = "events"
    THEN fetchMarketNews(
             [r EXCEPT !.res = [NoResponse EXCEPT
                                   !.data = data, !.failed = failed,
                                   !.candidates =
                                       candidateEvents(getEffectiveItems, data, 1)]])
    ELSE [r EXCEPT !.pc = "done",
                   !.res = [NoResponse EXCEPT !.status = "ok", !.data = data,
                                              !.items = getEffectiveItems,
                                              !.failed = failed]]

\* a batch without the try / catch around the fetch of an instrument: the
\* first throw ends the whole call
ResumeNoCatch(r) ==
    IF r.pc \notin {"returned", "threw"} THEN r
    ELSE IF r.route = "chart" \/ r.pc = "threw"
    THEN IF r.pc = "returned"
         THEN [r EXCEPT !.pc = "done", !.retry = 0,
                        !.res = [NoResponse EXCEPT !.status = "ok",
                                                   !.data = r.f.data]]
         ELSE [r EXCEPT !.pc = "done", !.retry = 0,
                        !.res = [NoResponse EXCEPT
                                    !.status = r.f.end,
                                    !.cause = toUserFriendlyCause(r.f.end)]]
    ELSE [r EXCEPT !.pc = "delay", !.retry = 0,
                   !.raw = SetKey(@, r.batch[r.idx].id, r.f.data),
                   !.ends = Append(@, r.f.end)]

\* the continuation of the caller of fetchChartFromYahoo once it has
\* returned or thrown: the chart route answers; fetchAllHistorical records
\* the result or the failure and starts delay(500)
Resume(r) ==
    IF r.pc \notin {"returned", "threw"} THEN r
    ELSE IF r.route = "chart"
    THEN IF r.pc = "returned"
         THEN [r EXCEPT !.pc = "done", !.retry = 0,
                        !.res = [NoResponse EXCEPT !.status = "ok",
                                                   !.data = r.f.data]]
         ELSE [r EXCEPT !.pc = "done", !.retry = 0,
                        !.res = [NoResponse EXCEPT
                                    !.status = r.f.end,
                                    !.cause = toUserFriendlyCause(r.f.end)]]
    ELSE LET item == r.batch[r.idx]
         IN  IF r.pc = "returned"
             THEN [r EXCEPT !.pc = "delay", !.retry = 0,
                            !.raw = SetKey(@, item.id, r.f.data),
                            !.ends = Append(@, r.f.end)]
             ELSE [r EXCEPT !.pc = "delay", !.retry = 0,
                            !.raw = SetKey(@, item.id, <<>>),
                            !.failed = Append(@, [name |-> item.name,
                                                  reason |-> r.f.end]),
                            !.ends = Append(@, r.f.end)]

\* apiError(res, 400, ...) of a route whose validateYearMonth returned null
InvalidPeriod(r) ==
    [r EXCEPT !.pc = "done", !.res = [NoResponse EXCEPT !.status = "InvalidPeriod"]]

\* getMonthlyData from its call up to its first suspension or its return
getMonthlyData(r) ==
    LET cached == getCachedMonthly(r.year, r.month)
    IN  IF cached # <<>> /\ ~r.forceRefresh
        THEN RouteResponse(r, cached[1], <<>>)
        ELSE LET b == [r EXCEPT !.cached = cached, !.batch = getEffectiveItems,
                                !.idx = 1]
             IN  Resume(fetchChartFromYahoo(b, b.batch[1].symbol))

\* a route that validates the period and calls getMonthlyData
PeriodRoute(c, route, yearP, monthP, forceRefresh) ==
    LET vm == validateYearMonth(yearP, monthP)
        r0 == [IdleCall EXCEPT !.route = route, !.yearP = yearP, !.monthP = monthP,
                               !.forceRefresh = forceRefresh]
        r1 == IF vm = <<>> THEN InvalidPeriod(r0)
              ELSE getMonthlyData(
                       [r0 EXCEPT !.year = vm[1].year, !.month = vm[1].month,
                                  !.afterReturn =
                                      getPeriodKey(vm[1].year, vm[1].month) \in returnedNR])
    IN  /\ calls[c].pc = "idle"
        /\ \A d \in Calls : d < c => calls[d].pc # "idle"
        /\ budget.requests > 0
        /\ vm = <<>> => budget.invalid > 0
        /\ budget' = [budget EXCEPT !.requests = @ - 1,
                                    !.invalid = IF vm = <<>> THEN @ - 1 ELSE @]
        /\ calls' = [calls EXCEPT ![c] = r1]
        /\ returnedNR' =
               IF r1.pc \in {"done", "news"} /\ vm # <<>> /\ ~forceRefresh
               THEN returnedNR \cup {getPeriodKey(r1.year, r1.month)}
               ELSE returnedNR
        /\ UNCHANGED << newsCache, symbolOverrides, cache, dailyFileCache,
                        cacheSaveScheduled, now, fn, overrideLog, disk,
                        saving >>

\* GET /api/daily/:year/:month
Daily(c, yearP, monthP) == PeriodRoute(c, "daily", yearP, monthP, FALSE)

\* GET /api/update/:year/:month
Update(c, yearP, monthP) == PeriodRoute(c, "update", yearP, monthP, TRUE)

\* GET /api/events/:year/:month, with or without ?refresh=1
Events(c, yearP, monthP, refresh) == PeriodRoute(c, "events", yearP, monthP, refresh)

\* what the chart route may be asked for: an instrument id or a symbol
ChartParams == {"kospi", "^GSPC", "AAPL"}

\* GET /api/chart/:symbol/:year/:month
Chart(c, symbolP, yearP, monthP) ==
    LET vm == validateYearMonth(yearP, monthP)
        r0 == [IdleCall EXCEPT !.route = "chart", !.yearP = yearP, !.monthP = monthP]
        found == {i \in 1..Len(items) :
                     getEffectiveItems[i].id = symbolP
                         \/ getEffectiveItems[i].symbol = symbolP}
        sym == IF found = {} THEN symbolP
               ELSE getEffectiveItems[CHOOSE i \in found : \A j \in found : i <= j].symbol
        r1 == IF vm = <<>> THEN InvalidPeriod(r0)
              ELSE IF ~isSymbolAllowed(sym)
              THEN [r0 EXCEPT !.pc = "done",
                              !.res = [NoResponse EXCEPT !.status = "NotAllowedItem"]]
              ELSE Resume(fetchChartFromYahoo(
                       [r0 EXCEPT !.year = vm[1].year, !.month = vm[1].month], sym))
    IN  /\ calls[c].pc = "idle"
        /\ \A d \in Calls : d < c => calls[d].pc # "idle"
        /\ budget.requests > 0
        /\ vm = <<>> => budget.invalid > 0
        /\ budget' = [budget EXCEPT !.requests = @ - 1,
                                    !.invalid = IF vm = <<>> THEN @ - 1 ELSE @]
        /\ calls' = [calls EXCEPT ![c] = r1]
        /\ UNCHANGED << newsCache, symbolOverrides, cache, dailyFileCache,
                        cacheSaveScheduled, now, returnedNR, fn, overrideLog,
                        disk, saving >>

\* cache.set(cacheKey, { data, expires: Date.now() + CACHE_TTL })
CacheSet(key, data) ==
    SetKey(cache, key, [data |-> data, expires |-> now + CACHE_TTL])

\* an end of getMonthlyData that leaves a snapshot another call wrote in
\* the meantime in place
FinishKeepsFirst(c, r) ==
    LET key == getPeriodKey(r.year, r.month)
        toSave == ToSave(r)
    IN  /\ dailyFileCache' =
               IF key \in DOMAIN dailyFileCache /\ r.cached = <<>>
               THEN dailyFileCache
               ELSE SetKey(dailyFileCache, key,
                           [year |-> r.year, month |-> r.month, data |-> toSave])
        /\ scheduleSaveDailyCache
        /\ calls' = [calls EXCEPT ![c] =
                        RouteResponse([r EXCEPT !.f = NoFetch], toSave, r.failed)]
        /\ returnedNR' = IF r.forceRefresh THEN returnedNR ELSE returnedNR \cup {key}

\* the end of getMonthlyData once fetchAllHistorical has returned: filter,
\* merge or put, write the snapshot, schedule the save, answer
Finish(c, r) ==
    LET key == getPeriodKey(r.year, r.month)
        toSave == ToSave(r)
    IN  /\ dailyFileCache' =
               SetKey(dailyFileCache, key,
                      [year |-> r.year, month |-> r.month, data |-> toSave])
        /\ scheduleSaveDailyCache
        /\ calls' = [calls EXCEPT ![c] =
                        RouteResponse([r EXCEPT !.f = NoFetch], toSave, r.failed)]
        /\ returnedNR' = IF r.forceRefresh THEN returnedNR ELSE returnedNR \cup {key}

\* the handler goes on after fetchChartFromYahoo returned or threw in r
Continue(c, r) ==
    /\ calls' = [calls EXCEPT ![c] = Resume(r)]
    /\ UNCHANGED << dailyFileCache, cacheSaveScheduled, returnedNR, saving >>

\* a failed attempt that leaves an empty series in the result cache
ChartFailedCaches(c) ==
    \E cause \in AttemptErrors :
    /\ calls[c].pc = "inflight"
    /\ budget.failing
    /\ cache' = CacheSet(ChartKey(calls[c], calls[c].f.symbol), <<>>)
    /\ calls' = [calls EXCEPT ![c] =
                    [calls[c] EXCEPT !.pc = "backoff",
                                     !.wait = (calls[c].retry + 1) * 2000,
                                     !.f = [calls[c].f EXCEPT !.waits = @ + 1,
                                                              !.err = cause]] ]
    /\ UNCHANGED << newsCache, symbolOverrides, dailyFileCache,
                    cacheSaveScheduled, now, returnedNR, fn, budget,
                    overrideLog, disk, saving >>

\* a provider request ends with an error: timeout, 429, non-200 status,
\* oversized or malformed body.  The catch of the attempt logs err.message
\* and starts delay(wait).
ChartFailed(c) ==
    \E cause \in AttemptErrors :
    /\ calls[c].pc = "inflight"
    /\ budget.failing
    /\ calls' = [calls EXCEPT ![c] =
                    [calls[c] EXCEPT !.pc = "backoff",
                                     !.wait = (calls[c].retry + 1) * 2000,
                                     !.f = [calls[c].f EXCEPT !.waits = @ + 1,
                                                              !.err = cause]] ]
    /\ UNCHANGED << newsCache, symbolOverrides, cache, dailyFileCache,
                    cacheSaveScheduled, now, returnedNR, fn, budget,
                    overrideLog, disk, saving >>

\* the provider sends the status line and a part of the body, then closes
\* the connection: the response emits 'aborted' and 'close', neither 'end'
\* nor an 'error' of the request, and the socket's timeout is gone with the
\* socket, so the promise of the attempt is never settled.  In a behaviour
\* without this step the same call stays in flight.
ChartAborted(c) ==
    /\ calls[c].pc = "inflight"
    /\ budget.failing
    /\ calls' = [calls EXCEPT ![c] = [calls[c] EXCEPT !.pc = "hung"]]
    /\ UNCHANGED << newsCache, symbolOverrides, cache, dailyFileCache,
                    cacheSaveScheduled, now, returnedNR, fn, budget,
                    overrideLog, disk, saving >>

\* an answer without a series counted as a failed fetch
ChartEmptyThrows(c) ==
    LET r == calls[c]
    IN  /\ r.pc = "inflight"
        /\ Continue(c, [r EXCEPT !.pc = "threw",
                                 !.f = [r.f EXCEPT !.end = "empty", !.data = <<>>]])
        /\ UNCHANGED << newsCache, symbolOverrides, cache, now, fn, budget,
                        overrideLog, disk, saving >>

\* the provider answers without a series for the symbol
ChartEmpty(c) ==
    LET r == calls[c]
    IN  /\ r.pc = "inflight"
        /\ cache' = CacheSet(ChartKey(r, r.f.symbol), <<>>)
        /\ Continue(c, [r EXCEPT !.pc = "returned",
                                 !.f = [r.f EXCEPT !.end = "empty", !.data = <<>>]])
        /\ UNCHANGED << newsCache, symbolOverrides, now, fn, budget,
                        overrideLog, disk, saving >>

\* the provider answers with a series
ChartAnswered(c, points) ==
    LET r == calls[c]
        result == parseChart(points)
    IN  /\ r.pc = "inflight"
        /\ budget.answers > 0
        /\ budget' = [budget EXCEPT !.answers = @ - 1]
        /\ cache' = CacheSet(ChartKey(r, r.f.symbol), result)
        /\ Continue(c, [r EXCEPT !.pc = "returned",
                                 !.f = [r.f EXCEPT !.end = "ok", !.data = result]])
        /\ UNCHANGED << newsCache, symbolOverrides, now, fn, overrideLog,
                        disk, saving >>

\* a retry loop that allows a fourth attempt
BackoffDoneFour(c) ==
    LET r == calls[c]
    IN  /\ r.pc = "backoff"
        /\ IF r.retry + 1 < 4
           THEN calls' = [calls EXCEPT ![c] =
                             [r EXCEPT !.pc = "inflight", !.retry = @ + 1, !.wait = 0,
                                       !.f = [r.f EXCEPT !.reqs = @ + 1,
                                                         !.err = ""]] ]
           ELSE calls' = [calls EXCEPT ![c] =
                             Resume([r EXCEPT !.pc = "threw", !.wait = 0,
                                              !.f = [r.f EXCEPT !.end = "FetchExhausted"]]) ]
        /\ UNCHANGED << newsCache, symbolOverrides, cache, dailyFileCache,
                        cacheSaveScheduled, now, returnedNR, fn, budget,
                        overrideLog, disk, saving >>

\* a retry loop that throws the error of its last attempt
BackoffDoneRethrows(c) ==
    LET r == calls[c]
    IN  /\ r.pc = "backoff"
        /\ IF r.retry + 1 < 3
           THEN calls' = [calls EXCEPT ![c] =
                             [r EXCEPT !.pc = "inflight", !.retry = @ + 1, !.wait = 0,
                                       !.f = [r.f EXCEPT !.reqs = @ + 1,
                                                         !.err = ""]] ]
           ELSE calls' = [calls EXCEPT ![c] =
                             Resume([r EXCEPT !.pc = "threw", !.wait = 0,
                                              !.f = [r.f EXCEPT !.end = r.f.err]]) ]
        /\ UNCHANGED << newsCache, symbolOverrides, cache, dailyFileCache,
                        cacheSaveScheduled, now, returnedNR, fn, budget,
                        overrideLog, disk, saving >>

\* delay(wait) after a failed attempt is over: the next attempt, or the
\* throw after the third one
BackoffDone(c) ==
    LET r == calls[c]
    IN  /\ r.pc = "backoff"
        /\ IF r.retry + 1 < 3
           THEN calls' = [calls EXCEPT ![c] =
                             [r EXCEPT !.pc = "inflight", !.retry = @ + 1, !.wait = 0,
                                       !.f = [r.f EXCEPT !.reqs = @ + 1,
                                                         !.err = ""]] ]
           ELSE calls' = [calls EXCEPT ![c] =
                             Resume([r EXCEPT !.pc = "threw", !.wait = 0,
                                              !.f = [r.f EXCEPT !.end = "FetchExhausted"]]) ]
        /\ UNCHANGED << newsCache, symbolOverrides, cache, dailyFileCache,
                        cacheSaveScheduled, now, returnedNR, fn, budget,
                        overrideLog, disk, saving >>

\* a batch that moves on to the next position but asks for the symbol of the
\* instrument it has just handled
DelayDoneSameSymbol(c) ==
    LET r == calls[c]
    IN  /\ r.pc = "delay"
        /\ IF r.idx < Len(r.batch)
           THEN LET n == [r EXCEPT !.idx = @ + 1]
                IN  Continue(c, fetchChartFromYahoo(n, n.batch[r.idx].symbol))
           ELSE Finish(c, r)
        /\ UNCHANGED << newsCache, symbolOverrides, cache, now, fn, budget,
                        overrideLog, disk >>

\* delay(500) of fetchAllHistorical is over: the next instrument, or the end
\* of the batch and of getMonthlyData
DelayDone(c) ==
    LET r == calls[c]
    IN  /\ r.pc = "delay"
        /\ IF r.idx < Len(r.batch)
           THEN LET n == [r EXCEPT !.idx = @ + 1]
                IN  Continue(c, fetchChartFromYahoo(n, n.batch[n.idx].symbol))
           ELSE Finish(c, r)
        /\ UNCHANGED << newsCache, symbolOverrides, cache, now, fn, budget,
                        overrideLog, disk >>

\* a fetchMarketNews that goes on to the company news whatever the market
\* news brought
NewsContinueAlways(c, r) ==
    LET result == DedupeNews(r.news.allNews)
    IN  IF r.news.stage < NewsStages
        THEN /\ calls' = [calls EXCEPT ![c] =
                              [r EXCEPT !.pc = "news",
                                        !.news = [r.news EXCEPT !.stage = @ + 1,
                                                                !.reqs = @ + 1]]]
             /\ newsCache' = newsCache
        ELSE /\ calls' = [calls EXCEPT ![c] = EventsResponse(r, result)]
             /\ newsCache' = SetKey(newsCache, NewsKey(r),
                                    [data |-> result,
                                     expires |-> now + NEWS_CACHE_TTL])

\* fetchMarketNews goes on after the request of its stage is over: the next
\* request, or the filter through seen, newsCache.set and the return to the
\* route
NewsContinue(c, r) ==
    LET stage == r.news.stage
        more == IF stage <= 2 THEN r.news.allNews = <<>> ELSE stage < NewsStages
        result == DedupeNews(r.news.allNews)
    IN  IF more
        THEN /\ calls' = [calls EXCEPT ![c] =
                              [r EXCEPT !.pc = "news",
                                        !.news = [r.news EXCEPT !.stage = @ + 1,
                                                                !.reqs = @ + 1]]]
             /\ newsCache' = newsCache
        ELSE /\ calls' = [calls EXCEPT ![c] = EventsResponse(r, result)]
             /\ newsCache' = SetKey(newsCache, NewsKey(r),
                                    [data |-> result,
                                     expires |-> now + NEWS_CACHE_TTL])

\* the news provider answers the request in flight with an array of items.
\* The period is a past month, so toDateCapped is toDate.
NewsAnswered(c, list) ==
    LET r == calls[c]
        fromDate == NewsKey(r)[2]
        toDateCapped == NewsKey(r)[3]
        inWindow == SelectSeq(list, LAMBDA n : n.date >= fromDate
                                                  /\ n.date <= toDateCapped)
    IN  /\ r.pc = "news"
        /\ list # <<>> => budget.news > 0
        /\ budget' = [budget EXCEPT !.news = IF list # <<>> THEN @ - 1 ELSE @]
        /\ IF r.news.stage <= 2
           THEN NewsContinue(c, [r EXCEPT !.news =
                                    [r.news EXCEPT !.allNews = @ \o inWindow,
                                                   !.failed = 0]])
           ELSE /\ calls' = [calls EXCEPT ![c] =
                                 [r EXCEPT !.pc = "newsDelay",
                                           !.news = [r.news EXCEPT
                                                        !.allNews = @ \o list,
                                                        !.failed = 0]]]
                /\ newsCache' = newsCache
        /\ UNCHANGED << symbolOverrides, cache, dailyFileCache,
                        cacheSaveScheduled, now, returnedNR, fn, overrideLog,
                        disk, saving >>

\* a failed news request that ends fetchMarketNews with a throw, which the
\* route answers with an error
NewsFailedThrows(c) ==
    LET r == calls[c]
    IN  /\ r.pc = "news"
        /\ calls' = [calls EXCEPT ![c] =
                        [r EXCEPT !.pc = "done",
                                  !.res = [r.res EXCEPT !.status = "NewsError"]]]
        /\ UNCHANGED << newsCache, symbolOverrides, cache, dailyFileCache,
                        cacheSaveScheduled, now, returnedNR, fn, budget,
                        overrideLog, disk, saving >>

\* the news request in flight ends with an error, or its body does not parse
\* or is not an array
NewsFailed(c) ==
    LET r == calls[c]
    IN  /\ r.pc = "news"
        /\ NewsContinue(c, [r EXCEPT !.news =
                                [r.news EXCEPT !.failed = r.news.stage]])
        /\ UNCHANGED << symbolOverrides, cache, dailyFileCache,
                        cacheSaveScheduled, now, returnedNR, fn, budget,
                        overrideLog, disk, saving >>

\* delay(150) after an answered company-news request is over
NewsDelayDone(c) ==
    LET r == calls[c]
    IN  /\ r.pc = "newsDelay"
        /\ NewsContinue(c, r)
        /\ UNCHANGED << symbolOverrides, cache, dailyFileCache,
                        cacheSaveScheduled, now, returnedNR, fn, budget,
                        overrideLog, disk, saving >>

\* the setImmediate callback of scheduleSaveDailyCache up to its await of
\* fs.mkdir
SaveCallback ==
    /\ saving.queued > 0
    /\ budget.saves > 0
    /\ budget' = [budget EXCEPT !.saves = @ - 1]
    /\ cacheSaveScheduled' = FALSE
    /\ saving' = [saving EXCEPT !.queued = @ - 1, !.mkdir = @ + 1]
    /\ UNCHANGED << newsCache, symbolOverrides, cache, dailyFileCache, now,
                    calls, returnedNR, fn, overrideLog, disk >>

\* fs.mkdir of a save callback is done: JSON.stringify(dailyFileCache) is
\* handed to fs.writeFile.  The data directory is writable.
WriteStart ==
    /\ saving.mkdir > 0
    /\ saving' = [saving EXCEPT !.mkdir = @ - 1,
                                !.writes = Append(@, StoreFile(dailyFileCache)),
                                !.raced = @ \/ saving.writes # << >>]
    /\ UNCHANGED << newsCache, symbolOverrides, cache, dailyFileCache,
                    cacheSaveScheduled, now, calls, returnedNR, fn, budget,
                    overrideLog, disk >>

\* the fs.writeFile call number i of those in progress completes.  Calls
\* that overlap write the same file without synchronisation: they complete
\* in any order and may leave a mix of their contents.
DiskWrite(i) ==
    /\ i \in 1..Len(saving.writes)
    /\ saving' = [saving EXCEPT
                     !.writes = SubSeq(@, 1, i - 1) \o SubSeq(@, i + 1, Len(@)),
                     !.raced = @ /\ Len(saving.writes) > 1]
    /\ disk' \in {saving.writes[i]} \cup (IF saving.raced THEN {Torn} ELSE {})
    /\ UNCHANGED << newsCache, symbolOverrides, cache, dailyFileCache,
                    cacheSaveScheduled, now, calls, returnedNR, fn, budget,
                    overrideLog >>

\* POST /api/symbols/override: the provider confirmed symbol for id
Override(id, symbol) ==
    /\ budget.overrideOps > 0
    /\ budget' = [budget EXCEPT !.overrideOps = @ - 1]
    /\ IF id \in Ids
       THEN /\ symbolOverrides' =
                   [symbolOverrides EXCEPT
                       ![id] = << [symbol |-> symbol, name |-> symbol] >>]
            /\ overrideLog' =
                   Append(overrideLog,
                          [op |-> "override", id |-> id, symbol |-> symbol,
                           status |-> 200, items |-> EffectiveItems(symbolOverrides')])
       ELSE /\ symbolOverrides' = symbolOverrides
            /\ overrideLog' =
                   Append(overrideLog,
                          [op |-> "override", id |-> id, symbol |-> symbol,
                           status |-> 400, items |-> <<>>])
    /\ UNCHANGED << newsCache, cache, dailyFileCache, cacheSaveScheduled, now,
                    calls, returnedNR, fn, disk, saving >>

\* a restore that drops every override
RestoreAll(id) ==
    /\ budget.overrideOps > 0
    /\ budget' = [budget EXCEPT !.overrideOps = @ - 1]
    /\ symbolOverrides' = [i \in Ids |-> <<>>]
    /\ overrideLog' =
           Append(overrideLog,
                  [op |-> "restore", id |-> id, symbol |-> "", status |-> 200,
                   items |-> EffectiveItems(symbolOverrides')])
    /\ UNCHANGED << newsCache, cache, dailyFileCache, cacheSaveScheduled, now,
                    calls, returnedNR, fn, disk, saving >>

\* DELETE /api/symbols/override/:id
Restore(id) ==
    /\ budget.overrideOps > 0
    /\ budget' = [budget EXCEPT !.overrideOps = @ - 1]
    /\ IF id \in Ids
       THEN /\ symbolOverrides' = [symbolOverrides EXCEPT ![id] = <<>>]
            /\ overrideLog' =
                   Append(overrideLog,
                          [op |-> "restore", id |-> id, symbol |-> "",
                           status |-> 200, items |-> EffectiveItems(symbolOverrides')])
       ELSE /\ symbolOverrides' = symbolOverrides
            /\ overrideLog' =
                   Append(overrideLog,
                          [op |-> "restore", id |-> id, symbol |-> "",
                           status |-> 400, items |-> <<>>])
    /\ UNCHANGED << newsCache, cache, dailyFileCache, cacheSaveScheduled, now,
                    calls, returnedNR, fn, disk, saving >>

\* time passes
Tick ==
    /\ budget.ticks > 0
    /\ budget' = [budget EXCEPT !.ticks = @ - 1]
    /\ now' = now + TickMs
    /\ UNCHANGED << newsCache, symbolOverrides, cache, dailyFileCache,
                    cacheSaveScheduled, calls, returnedNR, fn, overrideLog,
                    disk, saving >>

NoFn == [op |-> "none"]

\* The environment of one behaviour: how many requests arrive and how many of
\* them carry an invalid period, how many provider requests are answered with
\* a series, whether provider requests may end with an error, how often the
\* clock ticks, how many override / restore requests are served, whether
\* FINNHUB_API_KEY is set, how many news requests are answered with items,
\* how many save callbacks run before the behaviour is cut off.
Environment(requests, invalid, answers, failing, ticks, overrideOps, apiKey, news, saves) ==
    [requests |-> requests, invalid |-> invalid, answers |-> answers,
     failing |-> failing, ticks |-> ticks, overrideOps |-> overrideOps,
     apiKey |-> apiKey, news |-> news, saves |-> saves]

\* the environments in which FINNHUB_API_KEY is set
KeyBudgets ==
    { Environment(1, 0, MaxAnswers, FALSE, 0, 0, TRUE, MaxNewsAnswers, MaxRequests),
      Environment(MaxRequests, 0, 0, FALSE, 0, 0, TRUE, 0, 0) }

Budgets ==
    { Environment(MaxRequests, 0, MaxAnswers, FALSE, 0, 0, FALSE, 0, 0),
      Environment(MaxRequests, 0, 0, TRUE, 0, 0, FALSE, 0, 0),
      Environment(MaxRequests, MaxInvalid, 0, FALSE, 0, 0, FALSE, 0, MaxRequests),
      Environment(MaxRequests, 0, 0, FALSE, MaxTicks, 0, FALSE, 0, 0),
      Environment(MaxRequests, 0, 0, FALSE, 0, MaxOverrideOps, FALSE, 0, 0),
      Environment(1, 0, MaxBatchAnswers, TRUE, 0, 0, FALSE, 0, MaxRequests) }
        \cup KeyBudgets

\* a store of January 2000 as an earlier run of the server left it
JanuaryStore(kospi, sp500) ==
    SetKey(<< >>, getPeriodKey(2000, 1),
           [year |-> 2000, month |-> 1,
            data |-> [id \in Ids |-> IF id = "kospi" THEN kospi ELSE sp500]])

\* the files a server is started on while requests are served: January 2000
\* with sp500 3 % lower on the second of two days, and with kospi on two
\* days, with two kospi records of one day, or without a kospi record
StartFiles ==
    { StoreFile(JanuaryStore(kospi, << [date |-> 20000103, close |-> 100],
                                      [date |-> 20000104, close |-> 97] >>)) :
          kospi \in { << [date |-> 20000103, close |-> 100],
                         [date |-> 20000104, close |-> 97] >>,
                      << [date |-> 20000103, close |-> 100],
                         [date |-> 20000103, close |-> 103] >>,
                      << >> } }

\* how a server starts: the environment of the behaviour and CACHE_FILE
Startups ==
    { [budget |-> b, file |-> NoFile] : b \in Budgets }
        \cup { [budget |-> Environment(1, 0, MaxAnswers, TRUE, 0, 0, FALSE, 0, MaxRequests),
                file |-> f] : f \in StartFiles }

\* the state when start() calls app.listen: loadDailyCacheFromFile and
\* loadSymbolOverrides are done.  There is no overrides file.
Init ==
    /\ \E st \in Startups :
           /\ budget = st.budget
           /\ disk = st.file
           /\ dailyFileCache = loadDailyCacheFromFile(st.file).store
    /\ symbolOverrides = [id \in Ids |-> <<>>]
    /\ cache = << >>
    /\ cacheSaveScheduled = FALSE
    /\ saving = NoSaving
    /\ now = 0
    /\ calls = [c \in Calls |-> IdleCall]
    /\ returnedNR = {}
    /\ newsCache = << >>
    /\ overrideLog = <<>>
    /\ fn = NoFn

Next ==
    \/ \E c \in Calls, y \in YearParams, m \in MonthParams : Daily(c, y, m)
    \/ \E c \in Calls, y \in YearParams, m \in MonthParams : Update(c, y, m)
    \/ \E c \in Calls, y \in YearParams, m \in MonthParams, refresh \in BOOLEAN :
           Events(c, y, m, refresh)
    \/ \E c \in Calls, s \in ChartParams, y \in YearParams, m \in MonthParams :
           Chart(c, s, y, m)
    \/ \E c \in Calls : ChartFailed(c)
    \/ \E c \in Calls : ChartEmpty(c)
    \/ \E c \in Calls, points \in ProviderSeries : ChartAnswered(c, points)
    \/ \E c \in Calls : BackoffDone(c)
    \/ \E c \in Calls : DelayDone(c)
    \/ \E c \in Calls, list \in NewsLists : NewsAnswered(c, list)
    \/ \E c \in Calls : NewsFailed(c)
    \/ \E c \in Calls : NewsDelayDone(c)
    \/ SaveCallback
    \/ WriteStart
    \/ \E i \in 1..MaxRequests : DiskWrite(i)
    \/ \E id \in Ids, s \in OverrideSymbols : Override(id, s)
    \/ \E id \in Ids : Restore(id)
    \/ Tick

Spec == Init /\ [][Next]_vars

(***************************************************************************)
(* One request while FINNHUB_API_KEY is set, under the scheduling of the   *)
(* event loop and with a chart provider that answers: a timer that was     *)
(* started fires, a callback that was scheduled runs, a chart request is   *)
(* answered.  The https.get of fetchMarketNews has no timeout: nothing     *)
(* makes a news request end.                                               *)
(***************************************************************************)
InitLive ==
    /\ Init
    /\ budget = Environment(1, 0, MaxAnswers, FALSE, 0, 0, TRUE, MaxNewsAnswers, MaxRequests)

NextLive ==
    \/ \E c \in Calls, y \in YearParams, m \in MonthParams : Daily(c, y, m)
    \/ \E c \in Calls, y \in YearParams, m \in MonthParams : Update(c, y, m)
    \/ \E c \in Calls, y \in YearParams, m \in MonthParams, refresh \in BOOLEAN :
           Events(c, y, m, refresh)
    \/ \E c \in Calls, s \in ChartParams, y \in YearParams, m \in MonthParams :
           Chart(c, s, y, m)
    \/ \E c \in Calls : ChartEmpty(c)
    \/ \E c \in Calls, points \in ProviderSeries : ChartAnswered(c, points)
    \/ \E c \in Calls : DelayDone(c)
    \/ \E c \in Calls, list \in NewsLists : NewsAnswered(c, list)
    \/ \E c \in Calls : NewsFailed(c)
    \/ \E c \in Calls : NewsDelayDone(c)
    \/ SaveCallback
    \/ WriteStart
    \/ \E i \in 1..MaxRequests : DiskWrite(i)

\* a chart request in flight ends
ChartRequestEnds(c) ==
    ChartEmpty(c) \/ \E points \in ProviderSeries : ChartAnswered(c, points)

Fairness ==
    /\ \A c \in Calls : WF_vars(ChartRequestEnds(c))
    /\ \A c \in Calls : WF_vars(DelayDone(c))
    /\ \A c \in Calls : WF_vars(NewsDelayDone(c))
    /\ WF_vars(SaveCallback)
    /\ WF_vars(WriteStart)
    /\ WF_vars(\E i \in 1..MaxRequests : DiskWrite(i))

SpecLive == InitLive /\ [][NextLive]_vars /\ Fairness

(***************************************************************************)
(* Properties of the request handlers.                                     *)
(***************************************************************************)
BatchRoutes == {"daily", "update", "events"}

\* where a handler is once getMonthlyData has returned to its route: in
\* fetchMarketNews (a request in flight, delay(150)) or after its response
AfterData == {"news", "newsDelay", "done"}

\* how a fetch that threw ended
FailEnds == {"DisallowedSymbol", "FetchExhausted"}

\* C1: once a non-refresh getMonthlyData call for a period has returned, a
\* later non-refresh call for the same period finds the stored snapshot: it
\* returns in the step that starts it, without a provider request, with the
\* stored data and an empty failure list.
C1_SnapshotServedAfterReturn ==
    [][\A c \in Calls :
          LET r == calls[c]
              n == calls'[c]
              key == getPeriodKey(n.year, n.month)
          IN  (/\ r.pc = "idle" /\ n.pc # "idle"
               /\ n.route \in {"daily", "events"} /\ ~n.forceRefresh
               /\ key \in returnedNR)
                  => /\ key \in DOMAIN dailyFileCache
                     /\ n.pc \in AfterData
                     /\ ~n.requested /\ n.f.reqs = 0
                     /\ n.pc = "done" => n.res.status = "ok"
                     /\ n.res.data = dailyFileCache[key].data
                     /\ n.res.failed = <<>>
                     /\ cache' = cache
                     /\ dailyFileCache' = dailyFileCache]_vars

\* a non-refresh call that started after another one for its period had
\* returned has been served a snapshot that holds records
C1_Witness ==
    \E c \in Calls :
        /\ calls[c].pc = "done" /\ calls[c].afterReturn
        /\ calls[c].route \in {"daily", "events"} /\ ~calls[c].forceRefresh
        /\ calls[c].res.status = "ok" /\ ~calls[c].requested
        /\ \E id \in DOMAIN calls[c].res.data : calls[c].res.data[id] # <<>>

\* C2 as stated: no snapshot is ever removed, and when a forced refresh
\* writes a period' snapshot every (instrument, date) that was in a snapshot
\* is still in it, whatever the interleaving of the requests.
C2_RefreshKeepsHistory ==
    [][\A k \in DOMAIN dailyFileCache :
          /\ k \in DOMAIN dailyFileCache'
          /\ (\E c \in Calls : /\ calls[c].pc = "delay" /\ calls'[c].pc \in AfterData
                                /\ calls[c].forceRefresh)
                 => \A id \in DOMAIN dailyFileCache[k].data :
                        /\ id \in DOMAIN dailyFileCache'[k].data
                        /\ Dates(dailyFileCache[k].data[id])
                               \subseteq Dates(dailyFileCache'[k].data[id])]_vars

\* the names of the failure records fetchAllHistorical owes for the fetches
\* that threw, in the order of the batch
RECURSIVE ExpectedFailed(_, _, _)
ExpectedFailed(batch, ends, k) ==
    IF k > Len(ends) THEN <<>>
    ELSE (IF ends[k] \in FailEnds THEN << batch[k].name >> ELSE <<>>)
             \o ExpectedFailed(batch, ends, k + 1)

\* C6: fetchAllHistorical never fails as a whole.  At every point of a batch
\* the results hold an entry for exactly the instruments handled so far,
\* empty for each instrument whose fetch threw, and the failure list holds
\* exactly one record per instrument whose fetch threw; the call ends only
\* once every instrument of the batch has been handled, and it ends well.
C6_BatchNeverFails ==
    \A c \in Calls :
        LET r == calls[c]
        IN  (r.route \in BatchRoutes /\ r.batch # <<>>) =>
                /\ r.pc \in {"delay"} \cup AfterData => Len(r.ends) = r.idx
                /\ DOMAIN r.raw = {r.batch[k].id : k \in 1..Len(r.ends)}
                /\ \A k \in 1..Len(r.ends) :
                       r.ends[k] \in FailEnds => r.raw[r.batch[k].id] = <<>>
                /\ [j \in 1..Len(r.failed) |-> r.failed[j].name]
                       = ExpectedFailed(r.batch, r.ends, 1)
                /\ r.pc \in AfterData =>
                       /\ Len(r.ends) = Len(r.batch)
                       /\ DOMAIN r.raw = Ids
                       /\ r.pc = "done" => r.res.status = "ok"
                       /\ r.res.failed = r.failed

\* a batch whose first instrument failed after all its attempts has gone on,
\* fetched records for the second one and ended with one failure record
C6_Witness ==
    \E c \in Calls :
        /\ calls[c].pc = "done" /\ calls[c].route \in BatchRoutes
        /\ calls[c].ends = << "FetchExhausted", "ok" >>
        /\ calls[c].raw[calls[c].batch[2].id] # <<>>
        /\ Len(calls[c].res.failed) = 1
        /\ calls[c].res.failed[1].name = calls[c].batch[1].name

\* the instruments of a batch for which the provider answered without a series
EmptyAnswers(r) == {k \in 1..Len(r.ends) : r.ends[k] = "empty"}

\* C7 as stated: when the provider answers without a series for exactly one
\* instrument of a batch, the call succeeds, that instrument's data is empty
\* and the failure list holds exactly one entry naming it.
C7_EmptyAnswerReportedAsFailure ==
    \A c \in Calls :
        LET r == calls[c]
        IN  (/\ r.route \in BatchRoutes /\ r.pc = "done"
             /\ Cardinality(EmptyAnswers(r)) = 1)
                => \A k \in EmptyAnswers(r) :
                       /\ r.res.status = "ok"
                       /\ r.raw[r.batch[k].id] = <<>>
                       /\ Cardinality({j \in 1..Len(r.failed) :
                                          r.failed[j].name = r.batch[k].name}) = 1

\* C7 amended: when the provider answers without a series for exactly one
\* instrument of a batch, the call succeeds, that instrument's data is empty
\* and the failure list holds no entry for it: the failure list holds one
\* entry per instrument whose fetch threw and nothing else.
C7_EmptyAnswerIsSuccess ==
    \A c \in Calls :
        LET r == calls[c]
        IN  (/\ r.route \in BatchRoutes /\ r.pc = "done"
             /\ Cardinality(EmptyAnswers(r)) = 1)
                => \A k \in EmptyAnswers(r) :
                       /\ r.res.status = "ok"
                       /\ r.raw[r.batch[k].id] = <<>>
                       /\ \A j \in 1..Len(r.failed) : r.failed[j].reason \in FailEnds
                       /\ Len(r.failed)
                              = Cardinality({j \in 1..Len(r.ends) :
                                                r.ends[j] \in FailEnds})

\* a batch in which the provider answered without a series for the first
\* instrument and with records for the second has ended without a failure
C7_Witness ==
    \E c \in Calls :
        /\ calls[c].pc = "done" /\ calls[c].route \in BatchRoutes
        /\ calls[c].ends = << "empty", "ok" >>
        /\ calls[c].raw[calls[c].batch[1].id] = <<>>
        /\ calls[c].raw[calls[c].batch[2].id] # <<>>
        /\ calls[c].res.failed = <<>>

\* C8: a daily, update, events or chart request whose year is a number
\* outside 2000..2100 or whose month is a number outside 1..12 is answered
\* InvalidPeriod in the step that starts it, without a provider request, and
\* leaves the store, its pending save and the result cache as they were.
C8_InvalidPeriodRejected ==
    [][\A c \in Calls :
          LET r == calls[c]
              n == calls'[c]
              y == parseInt(n.yearP)
              m == parseInt(n.monthP)
          IN  (/\ r.pc = "idle" /\ n.pc # "idle"
               /\ n.route \in BatchRoutes \cup {"chart"}
               /\ y # NaN /\ m # NaN
               /\ (y < 2000 \/ y > 2100 \/ m < 1 \/ m > 12))
                  => /\ n.pc = "done"
                     /\ n.res.status = "InvalidPeriod"
                     /\ ~n.requested /\ n.f = NoFetch
                     /\ cache' = cache
                     /\ dailyFileCache' = dailyFileCache
                     /\ cacheSaveScheduled' = cacheSaveScheduled]_vars

\* a request for the year 2101 has been rejected while the store and the
\* result cache held entries
C8_Witness ==
    \E c \in Calls :
        /\ calls[c].pc = "done" /\ calls[c].res.status = "InvalidPeriod"
        /\ parseInt(calls[c].yearP) = 2101
        /\ DOMAIN dailyFileCache # {} /\ DOMAIN cache # {}

\* the whitelist under the overrides in force: the symbols of the effective
\* items
AllowedUnder(symbol, overrides) ==
    \E i \in 1..Len(items) :
        symbol = IF overrides[items[i].id] # <<>>
                 THEN overrides[items[i].id][1].symbol
                 ELSE items[i].symbol

\* C9: a fetchChartFromYahoo call with a symbol that is not in the effective
\* whitelist when it is made fails as DisallowedSymbol: it makes no provider
\* request, waits for no backoff and returns nothing from the result cache,
\* not even a non-expired entry stored while the symbol was allowed.
C9_DisallowedSymbolNeverFetched ==
    \A c \in Calls :
        LET f == calls[c].f
        IN  (f.end # "none" /\ ~AllowedUnder(f.symbol, f.overrides)) =>
                /\ f.end = "DisallowedSymbol"
                /\ f.reqs = 0 /\ f.waits = 0
                /\ f.data = <<>>
                /\ calls[c].pc \notin {"inflight", "backoff", "returned"}
                /\ calls[c].route \in BatchRoutes =>
                       /\ Last(calls[c].ends) = "DisallowedSymbol"
                       /\ Last(calls[c].failed).name = calls[c].batch[calls[c].idx].name

\* a fetch for a symbol that an override took off the whitelist has thrown
\* while the result cache held a non-expired entry for the symbol
C9_Witness ==
    \E c \in Calls :
        /\ calls[c].f.end = "DisallowedSymbol"
        /\ calls[c].f.fresh
        /\ ~AllowedUnder(calls[c].f.symbol, calls[c].f.overrides)

\* the events of a response
EventSet(byDate) ==
    UNION { {byDate[g].events[j] : j \in 1..Len(byDate[g].events)} :
              g \in 1..Len(byDate) }

\* the instrument of a candidate declares a news symbol
DeclaresNewsSymbol(ev) ==
    \E i \in 1..Len(items) : items[i].id = ev.id /\ items[i].newsSymbol # ""

\* an event of the response made from the candidate ev
EventsFrom(r, ev) ==
    {e \in EventSet(r.res.events) :
        /\ e.date = ev.date /\ e.item = ev.item
        /\ e.change = ev.change /\ e.type = ev.type}

C13_NoKeyNoEvents ==
    \A c \in Calls :
        (calls[c].route = "events" /\ calls[c].pc = "done"
             /\ calls[c].res.status # "InvalidPeriod" /\ ~budget.apiKey)
            => /\ calls[c].res.status = "ok"
               /\ calls[c].res.events = <<>>

\* C20 as stated: an events query that was received is eventually answered,
\* whatever the news provider does with the requests it accepts.
C20_EventsQueryCompletes ==
    \A c \in Calls :
        (calls[c].route = "events") ~> (calls[c].pc = "done")

\* the instruments of a batch whose fetch threw or brought no record of the
\* period
WithoutFresh(r) ==
    {k \in 1..Len(r.ends) :
        \/ r.ends[k] \in FailEnds
        \/ FilterWindow(r, r.raw[r.batch[k].id]) = <<>>}

\* what a forced refresh over the snapshot it read owes to the instruments
\* in K: their series as it was in that snapshot, saved and returned, and a
\* failure record for each of them whose fetch threw
KeepsCachedSeries(c, K) ==
    LET r == calls[c]
        n == calls'[c]
        key == getPeriodKey(r.year, r.month)
    IN  \A k \in K :
            LET id == r.batch[k].id
            IN  /\ dailyFileCache'[key].data[id] = r.cached[1][id]
                /\ n.res.data[id] = r.cached[1][id]
                /\ r.ends[k] \in FailEnds =>
                       \E j \in 1..Len(n.res.failed) :
                           n.res.failed[j].name = r.batch[k].name

\* a forced refresh of a period that has a snapshot ends its batch
RefreshEnds(c) ==
    /\ calls[c].pc = "delay" /\ calls'[c].pc \in AfterData
    /\ calls[c].forceRefresh /\ calls[c].cached # <<>>

\* C22 as stated: when a forced refresh of a period that has a snapshot
\* ends, every instrument whose fetch failed or returned no records has
\* exactly its previously cached series in the snapshot saved and in the data
\* returned, and each failed fetch is in the failure list.
C22_FailedFetchKeepsCachedSeries ==
    [][\A c \in Calls :
          RefreshEnds(c) => KeepsCachedSeries(c, WithoutFresh(calls[c]))]_vars

\* the same for the instruments whose cached series holds no date twice
RefreshKeepsUniqueDateSeries ==
    [][\A c \in Calls :
          RefreshEnds(c) =>
              KeepsCachedSeries(c,
                  {k \in WithoutFresh(calls[c]) :
                      LET series == calls[c].cached[1][calls[c].batch[k].id]
                      IN  Cardinality(Dates(series)) = Len(series)})]_vars

\* C25: the result cache changes only in a step in which a provider request
\* of some call ends with a parsed series or with an answer without a
\* series, and then exactly the entry of that call's key is set, to the
\* series the call returns; an attempt that fails and a call that gives up
\* after its third failed attempt leave the result cache as it is.
C25_CacheWrittenOnSuccessOnly ==
    [][/\ cache' # cache =>
              \E c \in Calls :
                  LET r == calls[c]
                      n == calls'[c]
                  IN  /\ r.pc = "inflight" /\ n.pc \notin {"inflight", "backoff"}
                      /\ n.f.end \in {"ok", "empty"}
                      /\ n.f.end = "empty" => n.f.data = <<>>
                      /\ cache' = SetKey(cache, ChartKey(r, r.f.symbol),
                                         [data |-> n.f.data,
                                          expires |-> now + CACHE_TTL])
       /\ \A c \in Calls :
              (\/ calls[c].pc = "inflight" /\ calls'[c].pc = "backoff"
               \/ calls[c].pc = "backoff" /\ calls'[c].pc # "backoff")
                  => cache' = cache]_vars

\* a batch whose first fetch gave up after three failed attempts and whose
\* second fetch succeeded at its second attempt: the result cache holds the
\* entry of the second symbol and nothing else
C25_Witness ==
    \E c \in Calls :
        /\ calls[c].pc = "delay"
        /\ calls[c].ends = << "FetchExhausted", "ok" >>
        /\ calls[c].f.reqs = 2
        /\ DOMAIN cache = {ChartKey(calls[c], calls[c].f.symbol)}
        /\ cache[ChartKey(calls[c], calls[c].f.symbol)].data = calls[c].f.data
        /\ calls[c].f.data # <<>>

\* C16: one fetchChartFromYahoo call issues at most 3 provider requests;
\* after failed attempt k it waits k x 2000 ms and only then issues attempt
\* k + 1; it returns at the first attempt that succeeds, without a further
\* request; it fails as FetchExhausted only after exactly 3 failed attempts.
C16_RetryPolicy ==
    [][\A c \in Calls :
          LET r == calls[c]
              n == calls'[c]
          IN  /\ n.f.reqs <= 3
              /\ n.pc = "inflight" => n.f.waits = n.f.reqs - 1
              /\ (r.pc = "inflight" /\ n.pc = "backoff") =>
                     /\ n.wait = r.f.reqs * 2000
                     /\ n.f.reqs = r.f.reqs /\ n.f.waits = r.f.reqs
              /\ (r.pc = "backoff" /\ n.pc = "inflight") =>
                     /\ r.f.reqs < 3
                     /\ n.f.reqs = r.f.reqs + 1
              /\ (r.pc = "inflight" /\ n.pc \notin {"inflight", "backoff"}) =>
                     /\ n.f.end \in {"ok", "empty"}
                     /\ n.f.reqs = r.f.reqs /\ n.f.waits = r.f.reqs - 1
              /\ (r.pc = "backoff" /\ n.pc # "backoff") =>
                     (n.pc # "inflight" <=> n.f.end = "FetchExhausted")
              /\ n.f.end = "FetchExhausted" => n.f.reqs = 3 /\ n.f.waits = 3]_vars

\* the fetch of the first instrument of a batch failed three times, and the
\* fetch of the second one succeeded at its third attempt
C16_Witness ==
    \E c \in Calls :
        /\ calls[c].pc = "delay"
        /\ calls[c].ends = << "FetchExhausted", "ok" >>
        /\ calls[c].f.reqs = 3 /\ calls[c].f.waits = 2

\* C17: within one batch instruments are fetched in list order, one at a
\* time: a provider request is issued only when the call starts, after a
\* backoff for the same instrument, or for instrument i + 1 when the fetch of
\* instrument i has finished and the delay(500) after it is over.
C17_SequentialBatch ==
    [][\A c \in Calls :
          LET r == calls[c]
              n == calls'[c]
          IN  n.route \in BatchRoutes =>
                  /\ n.idx # r.idx =>
                         /\ r.pc \in {"idle", "delay"}
                         /\ n.idx = r.idx + 1
                         /\ Len(r.ends) = r.idx
                         /\ n.f.symbol = n.batch[n.idx].symbol
                  /\ (n.pc = "inflight" /\ r.pc # "inflight") =>
                         /\ r.pc \in {"idle", "delay", "backoff"}
                         /\ r.pc = "backoff" => n.idx = r.idx
                         /\ r.pc \in {"idle", "delay"} => n.idx = r.idx + 1
                         /\ n.f.symbol = n.batch[n.idx].symbol
                         /\ Len(n.ends) = n.idx - 1
                  /\ n.pc = "delay" => Len(n.ends) = n.idx
                  /\ (n.pc \in AfterData /\ r.pc \notin AfterData
                         /\ n.batch # <<>>) =>
                         r.pc = "delay" /\ r.idx = Len(r.batch)]_vars

\* the request for the second instrument of a batch is in flight after the
\* fetch of the first one failed after all its attempts
C17_Witness ==
    \E c \in Calls :
        /\ calls[c].route \in BatchRoutes /\ calls[c].pc = "inflight"
        /\ calls[c].idx = 2 /\ calls[c].ends = << "FetchExhausted" >>

\* C18 as stated: every series of every snapshot has unique dates in
\* strictly ascending order.
C18_SnapshotDatesUnique ==
    \A k \in DOMAIN dailyFileCache :
        \A id \in DOMAIN dailyFileCache[k].data :
            LET series == dailyFileCache[k].data[id]
            IN  \A i \in 1..Len(series), j \in 1..Len(series) :
                    i < j => series[i].date < series[j].date

\* C19 as stated: a getMonthlyData call whose batch failed for every
\* instrument does not create a snapshot.
C19_NoSnapshotFromFailedBatch ==
    [][\A c \in Calls :
          LET r == calls[c]
              key == getPeriodKey(r.year, r.month)
          IN  (/\ r.pc = "delay" /\ calls'[c].pc \in AfterData
               /\ \A k \in 1..Len(r.ends) : r.ends[k] \in FailEnds
               /\ key \notin DOMAIN dailyFileCache)
                  => key \notin DOMAIN dailyFileCache']_vars

(***************************************************************************)
(* The result cache of fetchChartFromYahoo over time: chart requests,      *)
(* provider answers with and without a series, and a clock that advances   *)
(* by half of CACHE_TTL.                                                   *)
(***************************************************************************)
InitCache ==
    /\ symbolOverrides = [id \in Ids |-> <<>>]
    /\ cache = << >>
    /\ dailyFileCache = << >>
    /\ cacheSaveScheduled = FALSE
    /\ now = 0
    /\ calls = [c \in Calls |-> IdleCall]
    /\ budget = Environment(MaxRequests, 0, MaxAnswers, FALSE, MaxTicks, 0, FALSE, 0, 0)
    /\ returnedNR = {}
    /\ newsCache = << >>
    /\ overrideLog = <<>>
    /\ disk = NoFile
    /\ saving = NoSaving
    /\ fn = NoFn

NextCache ==
    \/ \E c \in Calls, s \in ChartParams, y \in YearParams, m \in MonthParams :
           Chart(c, s, y, m)
    \/ \E c \in Calls : ChartEmpty(c)
    \/ \E c \in Calls, points \in ProviderSeries : ChartAnswered(c, points)
    \/ Tick

SpecCache == InitCache /\ [][NextCache]_vars

\* fetchChartFromYahoo is called in this step of call c
FetchStarts(c) ==
    \/ calls[c].pc = "idle" /\ calls'[c].f.end # "none"
    \/ calls[c].pc = "delay" /\ calls'[c].idx = calls[c].idx + 1

\* what the caller of fetchChartFromYahoo holds as the series it returned
Returned(n) ==
    IF n.route = "chart" THEN n.res.data ELSE n.raw[n.batch[n.idx].id]

\* C24: a fetchChartFromYahoo call for an allowed symbol that starts less
\* than CACHE_TTL after the result-cache entry of its key was written returns
\* the series of the entry without a provider request and leaves the cache
\* alone; a call that finds no entry, or one written CACHE_TTL or more ago,
\* is not served from the cache and issues a provider request.
C24_ResultCacheHit ==
    [][\A c \in Calls :
          LET n == calls'[c]
              key == ChartKey(n, n.f.symbol)
          IN  (FetchStarts(c) /\ n.f.end # "DisallowedSymbol") =>
                  IF key \in DOMAIN cache
                         /\ now - (cache[key].expires - CACHE_TTL) < CACHE_TTL
                  THEN /\ n.f.end = "hit" /\ n.f.reqs = 0
                       /\ n.f.data = cache[key].data
                       /\ Returned(n) = cache[key].data
                       /\ n.pc # "inflight"
                       /\ cache' = cache
                  ELSE /\ n.f.end = "pending" /\ n.f.reqs = 1
                       /\ n.pc = "inflight"]_vars

\* a chart request that started half of CACHE_TTL after the entry of its key
\* was written has been served the records of the entry
C24_Witness ==
    /\ now = CACHE_TTL \div 2
    /\ calls[1].route = "chart" /\ calls[1].f.end = "ok"
    /\ calls[2].route = "chart" /\ calls[2].pc = "done"
    /\ calls[2].f.end = "hit" /\ calls[2].f.reqs = 0
    /\ calls[2].res.data # <<>>
    /\ cache[ChartKey(calls[2], calls[2].f.symbol)].expires = CACHE_TTL

(***************************************************************************)
(* The news adapter: fetchMarketNews as the events route calls it, and     *)
(* fetchNewsForSymbol called for a company over January 2000, with and     *)
(* without FINNHUB_API_KEY, against a provider whose requests end with an  *)
(* array of items, an error, a body that is not JSON, an object with an    *)
(* error field, or another body that is not an array.                      *)
(***************************************************************************)
\* calls of fetchNewsForSymbol in one behaviour
MaxSymbolCalls == 2

\* how a company-news request may end without an array
NewsFailures == {"networkError", "malformedJSON", "errorBody", "notArray"}

\* items of a company-news array: datetime is 0 when the item has none
CompanyNews ==
    SeqsUpTo({ [datetime |-> 20000104, headline |-> "a"],
               [datetime |-> 0, headline |-> "b"] }, MaxNewsLen)

SymbolNewsKey(symbol) ==
    << symbol, formatYMD(2000, 1, 1), formatYMD(2000, 1, 31) >>

\* fetchNewsForSymbol is not running
NoSymbolNews ==
    [op |-> "symbolNews", pc |-> "idle", made |-> 0, symbol |-> "",
     reqs |-> 0, outcome |-> "none", result |-> << >>, threw |-> FALSE]

InitNews ==
    /\ symbolOverrides = [id \in Ids |-> <<>>]
    /\ cache = << >>
    /\ dailyFileCache = << >>
    /\ cacheSaveScheduled = FALSE
    /\ now = 0
    /\ calls = [c \in Calls |-> IdleCall]
    /\ budget \in { Environment(1, 0, 0, FALSE, 0, 0, apiKey, MaxNewsAnswers, 0) :
                        apiKey \in BOOLEAN }
    /\ returnedNR = {}
    /\ newsCache = << >>
    /\ overrideLog = <<>>
    /\ disk = NoFile
    /\ saving = NoSaving
    /\ fn = NoSymbolNews

\* fetchNewsForSymbol(symbol, fromDate, toDate, { skipCache }) from its call
\* up to its request in flight or its return
SymbolNewsCall(symbol, skipCache) ==
    LET key == SymbolNewsKey(symbol)
        called == [NoSymbolNews EXCEPT !.made = fn.made + 1, !.symbol = symbol]
    IN  /\ fn.op = "symbolNews" /\ fn.pc \in {"idle", "returned"}
        /\ fn.made < MaxSymbolCalls
        /\ fn' = IF ~skipCache /\ key \in DOMAIN newsCache
                       /\ newsCache[key].expires > now
                 THEN [called EXCEPT !.pc = "returned", !.outcome = "cached",
                                     !.result = newsCache[key].data]
                 ELSE IF ~budget.apiKey
                 THEN [called EXCEPT !.pc = "returned", !.outcome = "noKey"]
                 ELSE [called EXCEPT !.pc = "inflight", !.reqs = 1]
        /\ UNCHANGED << newsCache, symbolOverrides, cache, dailyFileCache,
                        cacheSaveScheduled, now, calls, budget, returnedNR,
                        overrideLog, disk, saving >>

\* the request ends with an array: map, filter, newsCache.set, return
SymbolNewsAnswered(list) ==
    LET kept == SelectSeq(list, LAMBDA n : n.datetime # 0)
        result == [k \in 1..Len(kept) |->
                      [date |-> kept[k].datetime, headline |-> kept[k].headline]]
    IN  /\ fn.op = "symbolNews" /\ fn.pc = "inflight"
        /\ fn' = [fn EXCEPT !.pc = "returned", !.outcome = "array",
                            !.result = result]
        /\ newsCache' = SetKey(newsCache, SymbolNewsKey(fn.symbol),
                               [data |-> result, expires |-> now + NEWS_CACHE_TTL])
        /\ UNCHANGED << symbolOverrides, cache, dailyFileCache,
                        cacheSaveScheduled, now, calls, budget, returnedNR,
                        overrideLog, disk, saving >>

\* the request ends with an error, or its body is not JSON (both caught), or
\* the parsed body is not an array: return []
SymbolNewsFailed(how) ==
    /\ fn.op = "symbolNews" /\ fn.pc = "inflight"
    /\ fn' = [fn EXCEPT !.pc = "returned", !.outcome = how, !.result = << >>]
    /\ UNCHANGED << newsCache, symbolOverrides, cache, dailyFileCache,
                    cacheSaveScheduled, now, calls, budget, returnedNR,
                    overrideLog, disk, saving >>

NextNews ==
    \/ \E c \in Calls, y \in YearParams, m \in MonthParams, refresh \in BOOLEAN :
           Events(c, y, m, refresh)
    \/ \E c \in Calls : ChartEmpty(c)
    \/ \E c \in Calls : DelayDone(c)
    \/ \E c \in Calls, list \in NewsLists : NewsAnswered(c, list)
    \/ \E c \in Calls : NewsFailed(c)
    \/ \E c \in Calls : NewsDelayDone(c)
    \/ \E symbol \in {"SPY"}, skipCache \in BOOLEAN : SymbolNewsCall(symbol, skipCache)
    \/ \E list \in CompanyNews : SymbolNewsAnswered(list)
    \/ \E how \in NewsFailures : SymbolNewsFailed(how)

SpecNews == InitNews /\ [][NextNews]_vars

\* C30: neither news function lets a failure out.  An events query with a
\* valid period is answered with success whatever the news requests did, and
\* what fetchMarketNews returned is the list of what the answered requests
\* brought; fetchNewsForSymbol never throws and returns the empty list
\* when its request ends without an array; without FINNHUB_API_KEY both
\* return the empty list and issue no request.
C30_NewsNeverFails ==
    /\ \A c \in Calls :
           LET r == calls[c]
           IN  (r.route = "events" /\ r.pc = "done"
                    /\ r.res.status # "InvalidPeriod") =>
                   /\ r.res.status = "ok"
                   /\ Records(r.news.result) \subseteq NewsItems
                   /\ ~budget.apiKey => r.news.reqs = 0 /\ r.news.result = << >>
    /\ \A c \in Calls : ~budget.apiKey => calls[c].pc \notin {"news", "newsDelay"}
    /\ fn.op = "symbolNews" =>
           /\ ~fn.threw
           /\ ~budget.apiKey => fn.reqs = 0 /\ fn.pc # "inflight"
           /\ fn.pc = "returned" =>
                  /\ fn.outcome \in NewsFailures \cup {"noKey"} => fn.result = << >>
                  /\ \A k \in 1..Len(fn.result) : fn.result[k].date # 0

\* with the key set, every request of fetchMarketNews failed and the events
\* query was answered with success; fetchNewsForSymbol was answered with an
\* object that carries an error and returned the empty list
C30_Witness ==
    /\ budget.apiKey
    /\ \E c \in Calls :
           /\ calls[c].route = "events" /\ calls[c].pc = "done"
           /\ calls[c].res.status = "ok"
           /\ calls[c].news.reqs = NewsStages /\ calls[c].news.result = << >>
    /\ fn.op = "symbolNews" /\ fn.pc = "returned"
    /\ fn.outcome = "errorBody" /\ fn.reqs = 1 /\ fn.result = << >>

(***************************************************************************)
(* One batch against a provider that may answer, fail or break off, under  *)
(* the scheduling of the event loop: the exchange of an attempt with the   *)
(* provider comes to an end (answer, error, req.setTimeout(15000), close   *)
(* of the connection) and a timer that was started fires.                  *)
(***************************************************************************)
InitBatch ==
    /\ symbolOverrides = [id \in Ids |-> <<>>]
    /\ cache = << >>
    /\ dailyFileCache = << >>
    /\ cacheSaveScheduled = FALSE
    /\ now = 0
    /\ calls = [c \in Calls |-> IdleCall]
    /\ budget = Environment(1, 0, MaxAnswers, TRUE, 0, 0, FALSE, 0, 0)
    /\ returnedNR = {}
    /\ newsCache = << >>
    /\ overrideLog = <<>>
    /\ disk = NoFile
    /\ saving = NoSaving
    /\ fn = NoFn

NextBatch ==
    \/ \E c \in Calls, y \in YearParams, m \in MonthParams : Daily(c, y, m)
    \/ \E c \in Calls, y \in YearParams, m \in MonthParams : Update(c, y, m)
    \/ \E c \in Calls : ChartFailed(c)
    \/ \E c \in Calls : ChartAborted(c)
    \/ \E c \in Calls : ChartEmpty(c)
    \/ \E c \in Calls, points \in ProviderSeries : ChartAnswered(c, points)
    \/ \E c \in Calls : BackoffDone(c)
    \/ \E c \in Calls : DelayDone(c)

\* the exchange of an attempt with the provider comes to an end
AttemptEnds(c) ==
    \/ ChartFailed(c)
    \/ ChartAborted(c)
    \/ ChartEmpty(c)
    \/ \E points \in ProviderSeries : ChartAnswered(c, points)

FairnessBatch ==
    /\ \A c \in Calls : WF_vars(AttemptEnds(c))
    /\ \A c \in Calls : WF_vars(BackoffDone(c))
    /\ \A c \in Calls : WF_vars(DelayDone(c))

SpecBatch == InitBatch /\ [][NextBatch]_vars /\ FairnessBatch

\* fetchAllHistorical of call c has been called and has not returned
InBatch(c) ==
    calls[c].route \in BatchRoutes /\ calls[c].pc \notin {"idle"} \cup AfterData

\* C29 as stated: every fetchAllHistorical call eventually returns, whatever
\* the provider does with the requests.
C29_BatchTerminates ==
    \A c \in Calls : InBatch(c) ~> (calls[c].pc \in AfterData)

\* every fetchAllHistorical call eventually returns or is left with an
\* attempt whose promise is never settled
BatchTerminatesUnlessAborted ==
    \A c \in Calls :
        InBatch(c) ~> (calls[c].pc \in AfterData \/ calls[c].pc = "hung")

(***************************************************************************)
(* start() on the files that may be found as CACHE_FILE: no file, a file   *)
(* that cannot be read, files that are not a store, and stores as the save *)
(* callback writes them.                                                   *)
(***************************************************************************)
\* a snapshot as getMonthlyData stores it
Snapshot(year, month, kospi) ==
    [year |-> year, month |-> month,
     data |-> [id \in Ids |-> IF id = "kospi" THEN kospi ELSE << >>]]

\* the stores over January and February 2000
Stores ==
    { [k \in K |-> Snapshot(2000, k % 100, s[k])] :
          K \in SUBSET {getPeriodKey(2000, 1), getPeriodKey(2000, 2)},
          s \in [ {getPeriodKey(2000, 1), getPeriodKey(2000, 2)}
                      -> SeqsUpTo({ [date |-> 20000103, close |-> 100],
                                    [date |-> 20000103, close |-> 103],
                                    [date |-> 20000104, close |-> 97] }, MaxLen) ] }

LoadFiles == NotStores \cup { StoreFile(st) : st \in Stores }

InitLoad ==
    /\ symbolOverrides = [id \in Ids |-> <<>>]
    /\ cache = << >>
    /\ dailyFileCache = << >>
    /\ cacheSaveScheduled = FALSE
    /\ now = 0
    /\ calls = [c \in Calls |-> IdleCall]
    /\ budget = Environment(0, 0, 0, FALSE, 0, 0, FALSE, 0, 0)
    /\ returnedNR = {}
    /\ newsCache = << >>
    /\ overrideLog = <<>>
    /\ disk \in LoadFiles
    /\ saving = NoSaving
    /\ fn = [op |-> "start", done |-> FALSE, threw |-> FALSE, warned |-> FALSE,
             listening |-> FALSE]

\* start(): await loadDailyCacheFromFile(), then loadSymbolOverrides() and
\* app.listen; a throw ends the process
Start ==
    LET loaded == loadDailyCacheFromFile(disk)
    IN  /\ fn.op = "start" /\ ~fn.done
        /\ dailyFileCache' = loaded.store
        /\ fn' = [fn EXCEPT !.done = TRUE, !.threw = loaded.threw,
                            !.warned = loaded.warned,
                            !.listening = ~loaded.threw]
        /\ UNCHANGED << newsCache, symbolOverrides, cache, cacheSaveScheduled,
                        now, calls, budget, returnedNR, overrideLog, disk,
                        saving >>

SpecLoad == InitLoad /\ [][Start]_vars

\* C28: loadDailyCacheFromFile does not throw and start() goes on to listen,
\* whatever the file; when the file is missing, unreadable or not a store,
\* the store is empty afterwards; when the file is a store, every period
\* key of the file is read by getCachedMonthly, with the data of the file.
C28_LoadNeverFails ==
    (fn.op = "start" /\ fn.done) =>
        /\ ~fn.threw /\ fn.listening
        /\ disk.kind # "object" => dailyFileCache = << >>
        /\ disk.kind = "object" =>
               \A k \in DOMAIN disk.value :
                   getCachedMonthly(k \div 100, k % 100)
                       = << disk.value[k].data >>

\* started on a file that holds the snapshots of two periods, one of them
\* with records
C28_Witness ==
    /\ fn.op = "start" /\ fn.done /\ fn.listening
    /\ disk.kind = "object"
    /\ DOMAIN disk.value = {getPeriodKey(2000, 1), getPeriodKey(2000, 2)}
    /\ Len(disk.value[getPeriodKey(2000, 1)].data["kospi"]) = 2
    /\ getCachedMonthly(2000, 1) # << >> /\ getCachedMonthly(2000, 2) # << >>

(***************************************************************************)
(* Saving the snapshot store: overlapping batches that the provider        *)
(* answers without a series, the save callback and the write to disk,      *)
(* under the scheduling of the event loop.                                 *)
(***************************************************************************)
InitSave ==
    /\ symbolOverrides = [id \in Ids |-> <<>>]
    /\ cache = << >>
    /\ dailyFileCache = << >>
    /\ cacheSaveScheduled = FALSE
    /\ now = 0
    /\ calls = [c \in Calls |-> IdleCall]
    /\ budget = Environment(MaxRequests, 0, 0, FALSE, 0, 0, FALSE, 0, MaxRequests)
    /\ returnedNR = {}
    /\ newsCache = << >>
    /\ overrideLog = <<>>
    /\ disk = NoFile
    /\ saving = NoSaving
    /\ fn = NoFn

NextSave ==
    \/ \E c \in Calls, y \in YearParams, m \in MonthParams : Daily(c, y, m)
    \/ \E c \in Calls, y \in YearParams, m \in MonthParams : Update(c, y, m)
    \/ \E c \in Calls : ChartEmpty(c)
    \/ \E c \in Calls : DelayDone(c)
    \/ SaveCallback
    \/ WriteStart
    \/ \E i \in 1..MaxRequests : DiskWrite(i)

SpecSave == InitSave /\ [][NextSave]_vars /\ Fairness

\* the period keys of the requests that are served
PeriodKeys == {getPeriodKey(2000, 1), getPeriodKey(2000, 2)}

\* C27: at most one save callback is pending at any time, and the flag says
\* whether one is; a snapshot write leaves exactly one callback pending
\* however many writes came before it, and starts nothing else; a callback
\* that runs leads to exactly one fs.writeFile call, whose content is the
\* whole store; and every snapshot written while a callback is pending is in
\* the content of a fs.writeFile call that follows.
C27_CoalescedSave ==
    /\ [](/\ saving.queued <= 1
          /\ cacheSaveScheduled <=> saving.queued = 1)
    /\ [][/\ dailyFileCache' # dailyFileCache =>
                 /\ cacheSaveScheduled' /\ saving'.queued = 1
                 /\ saving'.mkdir = saving.mkdir
                 /\ saving'.writes = saving.writes /\ disk' = disk
          /\ saving'.queued < saving.queued =>
                 /\ saving'.queued = 0 /\ ~cacheSaveScheduled'
                 /\ saving'.mkdir = saving.mkdir + 1
                 /\ saving'.writes = saving.writes
          /\ saving'.mkdir > saving.mkdir =>
                 saving'.queued = saving.queued - 1
          /\ saving'.mkdir < saving.mkdir =>
                 /\ saving'.mkdir = saving.mkdir - 1
                 /\ saving'.writes =
                        Append(saving.writes, StoreFile(dailyFileCache))
          /\ Len(saving'.writes) > Len(saving.writes) =>
                 saving'.mkdir = saving.mkdir - 1]_vars
    /\ \A k \in PeriodKeys :
           (cacheSaveScheduled /\ k \in DOMAIN dailyFileCache)
               ~> (\E i \in 1..Len(saving.writes) :
                       k \in DOMAIN saving.writes[i].value)

\* two batches wrote the snapshots of two periods before the save callback
\* ran: one callback is pending and nothing is being written
C27_Witness ==
    /\ calls[1].pc = "done" /\ calls[2].pc = "done"
    /\ calls[1].requested /\ calls[2].requested
    /\ DOMAIN dailyFileCache = PeriodKeys
    /\ cacheSaveScheduled
    /\ saving = [NoSaving EXCEPT !.queued = 1]
    /\ disk = NoFile

(***************************************************************************)
(* The override and restore routes alone: sequences of requests for the    *)
(* instruments and for an id that is not an instrument.                    *)
(***************************************************************************)
OverrideIds == Ids \cup {"gold"}

InitOverride ==
    /\ symbolOverrides = [id \in Ids |-> <<>>]
    /\ cache = << >>
    /\ dailyFileCache = << >>
    /\ cacheSaveScheduled = FALSE
    /\ now = 0
    /\ calls = [c \in Calls |-> IdleCall]
    /\ budget = Environment(0, 0, 0, FALSE, 0, MaxOverlayOps, FALSE, 0, 0)
    /\ returnedNR = {}
    /\ newsCache = << >>
    /\ overrideLog = <<>>
    /\ disk = NoFile
    /\ saving = NoSaving
    /\ fn = NoFn

NextOverride ==
    \/ \E id \in OverrideIds, s \in OverrideSymbols : Override(id, s)
    \/ \E id \in OverrideIds : Restore(id)

SpecOverride == InitOverride /\ [][NextOverride]_vars

\* the effective items before the request of overrideLog[k]: those of the
\* last request before it that changed the overlay, or the base items
RECURSIVE ItemsBefore(_)
ItemsBefore(k) ==
    IF k = 1 THEN EffectiveItems([id \in Ids |-> <<>>])
    ELSE IF overrideLog[k - 1].status = 200 THEN overrideLog[k - 1].items
    ELSE ItemsBefore(k - 1)

\* the base definition of an instrument as an effective item
BaseItem(i) ==
    [id |-> items[i].id, name |-> items[i].name, symbol |-> items[i].symbol,
     newsSymbol |-> items[i].newsSymbol, overridden |-> FALSE]

\* C21 as stated: an override of id followed by a restore of id yields the
\* effective items of before the override.
C21_OverrideRestoreRoundTrip ==
    \A k \in 1..Len(overrideLog) - 1 :
        (/\ overrideLog[k].op = "override" /\ overrideLog[k].status = 200
         /\ overrideLog[k + 1].op = "restore"
         /\ overrideLog[k + 1].id = overrideLog[k].id)
            => overrideLog[k + 1].items = ItemsBefore(k)

\* C21 amended: the overlay never reaches the base definitions: the effective
\* entry of an instrument without an override is its base definition, the
\* one of an instrument with an override is the base definition with the
\* symbol and the name of the override; an override of id changes only the
\* effective entry of id; a restore of id puts the base definition of id
\* back and changes no other entry, so that an override of id followed by a
\* restore of id yields the effective items of before the override when id
\* had no override then, and those with the base definition of id otherwise;
\* a request for an unknown instrument changes nothing.
C21_OverlayOnly ==
    /\ \A i \in 1..Len(items) :
           LET o == symbolOverrides[items[i].id]
           IN  IF o = <<>> THEN getEffectiveItems[i] = BaseItem(i)
               ELSE getEffectiveItems[i] =
                        [BaseItem(i) EXCEPT !.symbol = o[1].symbol,
                                            !.name = o[1].name,
                                            !.overridden = TRUE]
    /\ getEffectiveItems = ItemsBefore(Len(overrideLog) + 1)
    /\ \A k \in 1..Len(overrideLog) :
           LET e == overrideLog[k]
           IN  e.status = 200 =>
                   \A i \in 1..Len(items) :
                       IF items[i].id # e.id THEN e.items[i] = ItemsBefore(k)[i]
                       ELSE IF e.op = "restore" THEN e.items[i] = BaseItem(i)
                       ELSE /\ e.items[i].symbol = e.symbol
                            /\ e.items[i].overridden
                            /\ e.items[i].id = items[i].id
                            /\ e.items[i].newsSymbol = items[i].newsSymbol
    /\ \A k \in 1..Len(overrideLog) - 1 :
           (/\ overrideLog[k].op = "override" /\ overrideLog[k].status = 200
            /\ overrideLog[k + 1].op = "restore"
            /\ overrideLog[k + 1].id = overrideLog[k].id)
               => \A i \in 1..Len(items) :
                      overrideLog[k + 1].items[i] =
                          IF items[i].id = overrideLog[k].id THEN BaseItem(i)
                          ELSE ItemsBefore(k)[i]

\* an instrument that had an override was given another one and was then
\* restored
C21_Witness ==
    /\ Len(overrideLog) = 3
    /\ \A k \in 1..3 : overrideLog[k].status = 200 /\ overrideLog[k].id = "kospi"
    /\ overrideLog[1].op = "override" /\ overrideLog[2].op = "override"
    /\ overrideLog[1].symbol # overrideLog[2].symbol
    /\ overrideLog[3].op = "restore"

(***************************************************************************)
(* mergeMonthlyData applied to drawn inputs.                               *)
(***************************************************************************)
MergePoints ==
    { [date |-> 20000103, close |-> 100],
      [date |-> 20000103, close |-> 103],
      [date |-> 20000104, close |-> 100] }

\* snapshots data: "kospi" absent or with any series, "sp500" absent or with
\* one fixed series
MergeInputs ==
    { [id \in D |-> IF id = "kospi" THEN s ELSE t] :
          D \in SUBSET Ids, s \in SeqsUpTo(MergePoints, MaxLen),
          t \in { << [date |-> 20000103, close |-> 100] >> } }

Quiet ==
    /\ symbolOverrides = [id \in Ids |-> <<>>]
    /\ cache = << >>
    /\ dailyFileCache = << >>
    /\ cacheSaveScheduled = FALSE
    /\ now = 0
    /\ calls = [c \in Calls |-> IdleCall]
    /\ budget = Environment(0, 0, 0, FALSE, 0, 0, FALSE, 0, 0)
    /\ returnedNR = {}
    /\ newsCache = << >>
    /\ overrideLog = <<>>
    /\ disk = NoFile
    /\ saving = NoSaving

InitMerge ==
    /\ Quiet
    /\ fn \in { [op |-> "merge", A |-> a, B |-> b, done |-> FALSE,
                  AB |-> << >>, BA |-> << >>, ABB |-> << >>] :
                    a \in MergeInputs, b \in MergeInputs }

MergeApply ==
    /\ fn.op = "merge"
    /\ ~fn.done
    /\ fn' = [fn EXCEPT !.done = TRUE,
                        !.AB = mergeMonthlyData(fn.A, fn.B),
                        !.BA = mergeMonthlyData(fn.B, fn.A),
                        !.ABB = mergeMonthlyData(mergeMonthlyData(fn.A, fn.B), fn.B)]
    /\ UNCHANGED << newsCache, symbolOverrides, cache, dailyFileCache,
                    cacheSaveScheduled, now, calls, budget, returnedNR,
                    overrideLog, disk, saving >>

SpecMerge == InitMerge /\ [][MergeApply]_vars

SeriesOf(data, id) == IF id \in DOMAIN data THEN data[id] ELSE <<>>

IsSorted(series) ==
    \A i \in 1..Len(series), j \in 1..Len(series) :
        i < j => series[i].date <= series[j].date

SameRecords(s, t) ==
    /\ Len(s) = Len(t)
    /\ \A x \in Records(s) \cup Records(t) :
           Cardinality({i \in 1..Len(s) : s[i] = x})
               = Cardinality({i \in 1..Len(t) : t[i] = x})

\* C3 as stated: mergeMonthlyData is idempotent, merge(merge(A, B), B) equals
\* merge(A, B) for all snapshots data A and B.
C3_MergeIdempotent == fn.op = "merge" /\ fn.done => fn.ABB = fn.AB

\* C4 as stated: mergeMonthlyData is commutative when, for every instrument,
\* the dates of A and the dates of B do not overlap: merge(A, B) equals
\* merge(B, A).
C4_MergeCommutative ==
    (/\ fn.op = "merge" /\ fn.done
     /\ \A id \in Ids : Dates(SeriesOf(fn.A, id)) \cap Dates(SeriesOf(fn.B, id)) = {})
        => fn.AB = fn.BA

C23_MergedSeriesUniqueByDate ==
    fn.op = "merge" /\ fn.done =>
        \A id \in DOMAIN fn.AB :
            /\ Cardinality(Dates(fn.AB[id])) = Len(fn.AB[id])
            /\ IsSorted(fn.AB[id])
            /\ \A i \in 1..Len(fn.AB[id]) :
                   fn.AB[id][i].date \in Dates(SeriesOf(fn.A, id))
                                          \cap Dates(SeriesOf(fn.B, id))
                       => fn.AB[id][i] \in Records(fn.B[id])

(***************************************************************************)
(* The end of getMonthlyData applied to drawn batch results, on days in    *)
(* and after the month that is asked for.                                  *)
(***************************************************************************)
WindowPoints ==
    { [date |-> 19991231, close |-> 100],
      [date |-> 20000103, close |-> 100],
      [date |-> 20000120, close |-> 100],
      [date |-> 20000201, close |-> 100],
      [date |-> 20000215, close |-> 100] }

\* the server's day: in January 2000, in February 2000, after both
Todays ==
    { [year |-> 2000, month |-> 1, day |-> 4],
      [year |-> 2000, month |-> 2, day |-> 1],
      [year |-> 2000, month |-> 3, day |-> 1] }

\* no snapshot, or the snapshot of the period as stored on its first day,
\* when that day is not after today
WindowCached(month, today) ==
    { << >> } \cup
    { << [id \in Ids |-> << [date |-> formatYMD(2000, month, 1), close |-> 90] >>] >> :
          x \in IF formatYMD(2000, month, 1)
                      <= formatYMD(today.year, today.month, today.day)
                THEN {1} ELSE {} }

InitWindow ==
    /\ Quiet
    /\ \E t \in Todays, m \in {1, 2}, s \in SeqsUpTo(WindowPoints, MaxLen) :
           \E cached \in WindowCached(m, t) :
               fn = [op |-> "window", today |-> t, done |-> FALSE,
                     toSave |-> << >>,
                     call |-> [IdleCall EXCEPT
                                  !.year = 2000, !.month = m,
                                  !.forceRefresh = (cached # <<>>),
                                  !.cached = cached,
                                  !.raw = [id \in Ids |->
                                              IF id = "kospi" THEN s ELSE <<>>]]]

WindowApply ==
    /\ fn.op = "window"
    /\ ~fn.done
    /\ fn' = [fn EXCEPT !.done = TRUE, !.toSave = ToSaveOn(fn.call, fn.today)]
    /\ UNCHANGED << newsCache, symbolOverrides, cache, dailyFileCache,
                    cacheSaveScheduled, now, calls, budget, returnedNR,
                    overrideLog, disk, saving >>

SpecWindow == InitWindow /\ [][WindowApply]_vars

\* date lies in the month, and not after today when the month is today's
InWindow(date, year, month, today) ==
    /\ date >= year * 10000 + month * 100 + 1
    /\ date <= year * 10000 + month * 100 + DaysInMonth(year, month)
    /\ (year = today.year /\ month = today.month) =>
           date <= today.year * 10000 + today.month * 100 + today.day

\* C26: every record that getMonthlyData takes from a batch result into the
\* snapshot it stores, on the put path and as the fresh side of a merge, has
\* its date between the first and the last day of the month, and not after
\* today when the month is the current one; a record of the batch result
\* outside of that window is not stored, and one inside of it is.
C26_WindowFilter ==
    (fn.op = "window" /\ fn.done) =>
        LET r == fn.call
            old(id) == IF r.cached = <<>> THEN {} ELSE Records(r.cached[1][id])
        IN  /\ DOMAIN fn.toSave = Ids
            /\ \A id \in Ids :
                   /\ \A x \in Records(fn.toSave[id]) \ old(id) :
                          /\ x \in Records(r.raw[id])
                          /\ InWindow(x.date, r.year, r.month, fn.today)
                   /\ \A x \in Records(r.raw[id]) \ old(id) :
                          x \in Records(fn.toSave[id])
                              <=> InWindow(x.date, r.year, r.month, fn.today)

\* on 2000-01-04 a batch result for January 2000 with a record of
\* 2000-01-03 and one of 2000-01-20: the first is stored, the second is not
C26_Witness ==
    /\ fn.op = "window" /\ fn.done
    /\ fn.today = [year |-> 2000, month |-> 1, day |-> 4]
    /\ fn.call.month = 1 /\ fn.call.cached = << >>
    /\ Dates(fn.call.raw["kospi"]) = {20000103, 20000120}
    /\ Dates(fn.toSave["kospi"]) = {20000103}

(***************************************************************************)
(* getMarketHeadlineForDate applied to drawn news lists.                   *)
(***************************************************************************)
\* the event date, and news dates 15, 14 and 1 day before and after it
HeadlineEventDate == 20000201
HeadlineNewsDates ==
    {20000117, 20000118, 20000131, 20000201, 20000202, 20000215, 20000216}

HeadlineNews ==
    SeqsUpTo([date : HeadlineNewsDates, headline : {"a", "b"}], MaxNews)

InitHeadline ==
    /\ Quiet
    /\ fn \in { [op |-> "headline", news |-> l, eventDate |-> HeadlineEventDate,
                  done |-> FALSE, out |-> <<>>] : l \in HeadlineNews }

HeadlineApply ==
    /\ fn.op = "headline"
    /\ ~fn.done
    /\ fn' = [fn EXCEPT !.done = TRUE,
                        !.out = getMarketHeadlineForDate(
                                    buildMarketNewsByDate(fn.news), fn.eventDate)]
    /\ UNCHANGED << newsCache, symbolOverrides, cache, dailyFileCache,
                    cacheSaveScheduled, now, calls, budget, returnedNR,
                    overrideLog, disk, saving >>

SpecHeadline == InitHeadline /\ [][HeadlineApply]_vars

\* the distance in days between two ISO dates of January to March 2000
DaysApart(d, e) ==
    LET n(x) == CASE x \div 100 = 200001 -> x % 100
                  [] x \div 100 = 200002 -> 31 + (x % 100)
                  [] OTHER -> 60 + (x % 100)
    IN  Abs(n(d) - n(e))

WarnCloses == {88, 95, 97, 100, 105, 107, 960, 998, 999, 1000}

\* series as getMonthlyData returns them: sorted by date, where a date may
\* repeat (two provider points of one calendar day)
WarnSeries ==
    { [i \in 1..Len(cs) |->
          [date |-> 20000103 + Cardinality({j \in 2..i : j \in steps}),
           close |-> cs[i]]] :
          cs \in SeqsUpTo(WarnCloses, MaxWarnLen), steps \in SUBSET (2..MaxWarnLen) }

\* the advisory of every candidate of the series, as the events route
\* computes it
RECURSIVE Advisories(_, _, _)
Advisories(data, candidates, k) ==
    IF k > Len(candidates) THEN <<>>
    ELSE << [i |-> candidates[k].i, date |-> candidates[k].date,
             type |-> candidates[k].type,
             sellWarning |-> getSellTimingWarning(data, candidates[k].date,
                                 candidates[k].change, candidates[k].type)] >>
             \o Advisories(data, candidates, k + 1)

InitWarning ==
    /\ Quiet
    /\ fn \in { [op |-> "warning", data |-> d, done |-> FALSE, out |-> <<>>] :
                    d \in WarnSeries }

WarningApply ==
    /\ fn.op = "warning"
    /\ ~fn.done
    /\ fn' = [fn EXCEPT !.done = TRUE,
                        !.out = Advisories(fn.data,
                                    ItemCandidates(items[2], fn.data, 2), 1)]
    /\ UNCHANGED << newsCache, symbolOverrides, cache, dailyFileCache,
                    cacheSaveScheduled, now, calls, budget, returnedNR,
                    overrideLog, disk, saving >>

SpecWarning == InitWarning /\ [][WarningApply]_vars

\* what the advisory table is computed from, on the series up to and
\* including record i: the day-over-day change in hundredths of a percent
\* is not needed, every comparison is cross-multiplied (closes are positive)
StreakAt(i) ==
    Cardinality({k \in 2..i : \A j \in k..i : fn.data[j].close < fn.data[j - 1].close})

HighAt(i) ==
    CHOOSE h \in {fn.data[j].close : j \in 1..i} :
        \A j \in 1..i : fn.data[j].close <= h

\* (a - b) / b * 100 <= k and >= k for positive b
PctLeq(a, b, k) == (a - b) * 100 <= k * b
PctGeq(a, b, k) == (a - b) * 100 >= k * b

\* C14 as stated: for a fall event the advisory is the first matching row of
\* the table (change <= -7 and streak >= 2) strongest sell; (change <= -5 and
\* streak >= 2) sell-trend; (cumulative <= -5 and drop-from-high <= -5)
\* stop-loss; (streak >= 3) caution; (change <= -5) caution; (cumulative <=
\* -3) review; otherwise volatility notice, with streak, cumulative and
\* drop-from-high computed on the series up to and including the event.
C14_FallAdvisoryTable ==
    fn.op = "warning" /\ fn.done =>
        \A k \in 1..Len(fn.out) :
            LET i == fn.out[k].i
                curr == fn.data[i].close
                prev == fn.data[i - 1].close
                first == fn.data[1].close
                high == HighAt(i)
                streak == StreakAt(i)
            IN  fn.out[k].type = "fall" =>
                    fn.out[k].sellWarning =
                        IF PctLeq(curr, prev, 0 - 7) /\ streak >= 2 THEN "strongest-sell"
                        ELSE IF PctLeq(curr, prev, 0 - 5) /\ streak >= 2 THEN "sell-trend"
                        ELSE IF PctLeq(curr, first, 0 - 5) /\ PctLeq(curr, high, 0 - 5)
                             THEN "stop-loss"
                        ELSE IF streak >= 3 THEN "caution-streak"
                        ELSE IF PctLeq(curr, prev, 0 - 5) THEN "caution-drop"
                        ELSE IF PctLeq(curr, first, 0 - 3) THEN "review"
                        ELSE "volatility"

\* C15 as stated: for a rise event the advisory is partial profit-taking
\* when change >= 7, otherwise profit-taking when drop-from-running-high >=
\* -1 and change >= 5, otherwise hold, with the running high taken over the
\* series up to and including the event.
C15_RiseAdvisoryTable ==
    fn.op = "warning" /\ fn.done =>
        \A k \in 1..Len(fn.out) :
            LET i == fn.out[k].i
                curr == fn.data[i].close
                prev == fn.data[i - 1].close
                high == HighAt(i)
            IN  fn.out[k].type = "rise" =>
                    fn.out[k].sellWarning =
                        IF PctGeq(curr, prev, 7) THEN "partial-profit"
                        ELSE IF PctGeq(curr, high, 0 - 1) /\ PctGeq(curr, prev, 5)
                             THEN "profit-taking"
                        ELSE "hold"

\* on series whose dates are unique both tables are what the code returns
AdvisoryTablesOnUniqueDates ==
    (\A i \in 1..Len(fn.data), j \in 1..Len(fn.data) :
         i < j => fn.data[i].date < fn.data[j].date)
        => C14_FallAdvisoryTable /\ C15_RiseAdvisoryTable

(***************************************************************************)
(* Event candidate generation applied to drawn series.                     *)
(***************************************************************************)
EvCloses == {NullNum, 0, 0 - 100, 97, 100, 103}

\* the i-th record of a series of closes is dated 2000-01-(02 + i)
EvSeries ==
    { [i \in 1..Len(cs) |-> [date |-> 20000102 + i, close |-> cs[i]]] :
          cs \in SeqsUpTo(EvCloses, MaxEvLen) }

InitEvents ==
    /\ Quiet
    /\ fn \in { [op |-> "events", raw |-> [EmptyData EXCEPT ![id] = s],
                  done |-> FALSE, out |-> << >>] : id \in Ids, s \in EvSeries }

EventsApply ==
    /\ fn.op = "events"
    /\ ~fn.done
    /\ fn' = [fn EXCEPT !.done = TRUE,
                        !.out = candidateEvents(getEffectiveItems, fn.raw, 1)]
    /\ UNCHANGED << newsCache, symbolOverrides, cache, dailyFileCache,
                    cacheSaveScheduled, now, calls, budget, returnedNR,
                    overrideLog, disk, saving >>

SpecEvents == InitEvents /\ [][EventsApply]_vars

\* the candidates emitted for the pair (data[j - 1], data[j]) of instrument id
CandidatesAt(id, j) ==
    {k \in 1..Len(fn.out) : fn.out[k].id = id /\ fn.out[k].i = j}

\* C10: for every adjacent pair (prev, curr) of an instrument's series with
\* prev neither null nor zero, a candidate is emitted exactly when
\* |(curr - prev) / prev * 100| >= 3 (one candidate, dated as curr; a null
\* curr has no change and yields none); its type is rise exactly when the
\* change is positive and fall exactly when it is negative.
C10_CandidateIffThreePercent ==
    fn.op = "events" /\ fn.done =>
        \A id \in Ids : \A j \in 2..Len(fn.raw[id]) :
            LET prev == fn.raw[id][j - 1].close
                curr == fn.raw[id][j].close
                at == CandidatesAt(id, j)
            IN  (prev # NullNum /\ prev # 0) =>
                    /\ at # {} <=>
                           /\ curr # NullNum
                           /\ Abs((curr - prev) * 100) >= 3 * Abs(prev)
                    /\ Cardinality(at) <= 1
                    /\ \A k \in at :
                           /\ fn.out[k].date = fn.raw[id][j].date
                           /\ fn.out[k].type = "rise" <=> (curr - prev) * prev > 0
                           /\ fn.out[k].type = "fall" <=> (curr - prev) * prev < 0

\* a series with a change of exactly -3 % followed by a rise of more than
\* 3 %, and the candidates of both computed
C10_Witness ==
    /\ fn.op = "events" /\ fn.done
    /\ \E id \in Ids :
           /\ Len(fn.raw[id]) = 3
           /\ fn.raw[id][1].close = 100
           /\ fn.raw[id][2].close = 97
           /\ fn.raw[id][3].close = 100
           /\ \E k \in CandidatesAt(id, 2) : fn.out[k].type = "fall"
           /\ \E k \in CandidatesAt(id, 3) : fn.out[k].type = "rise"

(***************************************************************************)
(* The list fetchMarketNews returns (events route of SpecNews).            *)
(***************************************************************************)

\* the (date, headline) pairs of a list of news items
NewsPairs(list) == { << list[k].date, list[k].headline >> : k \in 1..Len(list) }

\* fetchMarketNews of call c went to the provider and has returned
NewsReturned(c) ==
    /\ calls[c].route = "events"
    /\ calls[c].pc = "done"
    /\ calls[c].news.reqs > 0

\* C31: the list fetchMarketNews returns never holds two items with the same
\* (date, headline), whether the items came from the market news or from the
\* company news of the fallback symbols, and every (date, headline) that was
\* collected is in the list; the list stored in newsCache is the same list.
C31_NewsUniqueByDateHeadline ==
    \A c \in Calls :
        NewsReturned(c) =>
            LET result == calls[c].news.result
            IN  /\ \A i, j \in 1..Len(result) :
                       (/\ result[i].date = result[j].date
                        /\ result[i].headline = result[j].headline) => i = j
                /\ NewsPairs(result) = NewsPairs(calls[c].news.allNews)
                /\ NewsKey(calls[c]) \in DOMAIN newsCache
                /\ newsCache[NewsKey(calls[c])].data = result

\* two fallback symbols were answered with the same item and the list
\* returned holds it once
C31_Witness ==
    \E c \in Calls :
        /\ NewsReturned(c)
        /\ Len(calls[c].news.allNews) = 2
        /\ calls[c].news.allNews[1] = calls[c].news.allNews[2]
        /\ calls[c].news.stage = NewsStages
        /\ Len(calls[c].news.result) = 1

\* a step of fetchMarketNews of call c
NewsStep(c) == calls'[c].news # calls[c].news /\ calls[c].news.stage > 0

\* C32: fetchMarketNews asks for the company news of the symbols of
\* US_MARKET_NEWS_SYMBOLS only once both market-news queries have left allNews
\* empty, and returns without asking for them once a market-news query has
\* brought an item of the window; once in the loop it asks for every symbol in
\* turn, whether the request of the symbol before failed or not.
C32_FallbackOrder ==
    [][\A c \in Calls :
           LET n == calls[c].news
               m == calls'[c].news
           IN  NewsStep(c) =>
                   /\ m.stage \in {n.stage, n.stage + 1}
                   /\ m.reqs = m.stage
                   /\ (n.stage <= 2 /\ m.stage = n.stage + 1) => m.allNews = <<>>
                   /\ (n.stage <= 2 /\ m.allNews # <<>>) =>
                          m.stage = n.stage /\ calls'[c].pc = "done"
                   /\ (n.stage \in 2..(NewsStages - 1) /\ m.allNews = <<>>) =>
                          calls'[c].pc # "done"
                   /\ (n.stage \in 3..(NewsStages - 1) /\ calls[c].pc = "news") =>
                          /\ calls'[c].pc \in {"news", "newsDelay"}
                          /\ calls'[c].pc = "news" => m.stage = n.stage + 1
                   /\ (n.stage \in 3..(NewsStages - 1)
                           /\ calls[c].pc = "newsDelay") =>
                          calls'[c].pc = "news" /\ m.stage = n.stage + 1
                   /\ calls'[c].pc = "done" =>
                          \/ m.stage <= 2 /\ m.allNews # <<>>
                          \/ m.stage = NewsStages]_vars

\* both market-news queries brought nothing, the first symbol was answered
\* with an item, the company-news request of the second symbol failed, and
\* the request of the third symbol is in flight
C32_Witness ==
    \E c \in Calls :
        /\ calls[c].pc = "news"
        /\ calls[c].news.stage = 5
        /\ calls[c].news.reqs = 5
        /\ calls[c].news.failed = 4
        /\ Len(calls[c].news.allNews) = 1

\* the second market-news query brought an item and fetchMarketNews returned
\* without a company-news request
C32_WitnessNoFallback ==
    \E c \in Calls :
        /\ NewsReturned(c)
        /\ calls[c].news.reqs = 2
        /\ calls[c].news.result # <<>>

(***************************************************************************)
(* Overlapping requests for a period without a snapshot (Spec).            *)
(***************************************************************************)

\* the requests fetchChartFromYahoo made to the provider for the instruments
\* of the batch of r: the fetches that neither hit the result cache nor were
\* refused
OwnRequests(r) == {k \in 1..Len(r.ends) : r.ends[k] \notin {"hit", "DisallowedSymbol"}}

\* C33: the miss path has no coalescing.  A non-refresh request that finds
\* no snapshot for its period starts a batch of its own whether or not
\* another request for the period is under way, and when its batch is over
\* it writes the snapshot of the period from its own results and is answered
\* with them, without a change to any other request or to the snapshot of
\* any other period: the store holds one snapshot for the period, the one of
\* the request that finished last.
C33_NoCoalescing ==
    [][\A c \in Calls :
           LET r == calls[c]
               n == calls'[c]
               key == getPeriodKey(n.year, n.month)
           IN  /\ (/\ r.pc = "idle" /\ n.pc # "idle"
                   /\ n.route \in {"daily", "events"} /\ ~n.forceRefresh
                   /\ n.res.status # "InvalidPeriod"
                   /\ getCachedMonthly(n.year, n.month) = <<>>) =>
                      /\ n.batch = getEffectiveItems /\ n.idx = 1
                      /\ n.pc \in {"inflight", "delay"}
               /\ (/\ r.pc = "delay" /\ n.pc \in AfterData
                   /\ ~r.forceRefresh) =>
                      /\ Len(n.ends) = Len(n.batch)
                      /\ n.pc = "done" => n.res.status = "ok"
                      /\ key \in DOMAIN dailyFileCache'
                      /\ dailyFileCache'[key].data = n.res.data
                      /\ \A k \in DOMAIN dailyFileCache :
                             k # key => /\ k \in DOMAIN dailyFileCache'
                                        /\ dailyFileCache'[k] = dailyFileCache[k]
                      /\ DOMAIN dailyFileCache' = DOMAIN dailyFileCache \cup {key}
                      /\ \A d \in Calls \ {c} : calls'[d] = calls[d]]_vars

\* two non-refresh requests for the same period both found no snapshot, each
\* made provider requests of its own for every instrument (the first was
\* answered with a series, the second without one), both were answered with
\* success, and the store holds the snapshot of the period
C33_Witness ==
    \E c, d \in Calls :
        /\ c # d
        /\ calls[c].pc = "done" /\ calls[d].pc = "done"
        /\ calls[c].route = "daily" /\ calls[d].route = "daily"
        /\ calls[c].year = calls[d].year /\ calls[c].month = calls[d].month
        /\ calls[c].cached = <<>> /\ calls[d].cached = <<>>
        /\ calls[c].res.status = "ok" /\ calls[d].res.status = "ok"
        /\ OwnRequests(calls[c]) = 1..Len(items)
        /\ OwnRequests(calls[d]) = 1..Len(items)
        /\ calls[c].ends[1] = "ok" /\ calls[d].ends[1] = "empty"
        /\ getPeriodKey(calls[c].year, calls[c].month) \in DOMAIN dailyFileCache

(***************************************************************************)
(* The file of the snapshot store once the saves are over (SpecSave).      *)
(***************************************************************************)

\* no request is under way and no save is queued, waiting for fs.mkdir or
\* writing
SavesOver ==
    /\ \A c \in Calls : calls[c].pc \in {"idle", "done"}
    /\ saving.queued = 0 /\ saving.mkdir = 0 /\ saving.writes = << >>

\* C34 as stated: once no request is under way and every save that was
\* scheduled has finished, the file holds the store as it is in memory; the
\* fs.writeFile calls of two save callbacks never leave an older store as
\* the content of the file.
C34_EventualDurability ==
    (SavesOver /\ dailyFileCache # << >>) => disk = StoreFile(dailyFileCache)

\* what holds of the file: a fs.writeFile call that completes while no other
\* is in progress, and none was while it ran, leaves the content it was
\* handed, which is the store in memory when no save is queued or waiting
DurableWhenNotOverlapping ==
    [][(/\ Len(saving.writes) = 1 /\ saving'.writes = << >>
        /\ ~saving.raced) =>
           /\ disk' = saving.writes[1]
           /\ (saving.queued = 0 /\ saving.mkdir = 0) =>
                  disk' = StoreFile(dailyFileCache)]_vars

(***************************************************************************)
(* The reasons of failure records and the causes of error answers (Spec).  *)
(***************************************************************************)

\* the messages fetchChartFromYahoo throws to its caller
FetchErrors == {"FetchExhausted", "DisallowedSymbol"}

\* the texts toUserFriendlyCause has for the errors of an attempt
AttemptTexts == {toUserFriendlyCause(e) : e \in AttemptErrors}

\* C35: every failure record of fetchAllHistorical has the reason
\* FetchExhausted or DisallowedSymbol, in the batch and in the answer of the
\* route; the error of a single attempt (rate limit, timeout, HTTP status,
\* malformed or oversized body) stays inside fetchChartFromYahoo: it is in no
\* failure record, it is not what fetchChartFromYahoo ends with, and it is
\* not the cause of an error answer, as it is or through toUserFriendlyCause.
C35_TwoFailureReasons ==
    \A c \in Calls :
        LET r == calls[c]
        IN  /\ \A k \in 1..Len(r.failed) : r.failed[k].reason \in FetchErrors
            /\ \A k \in 1..Len(r.res.failed) : r.res.failed[k].reason \in FetchErrors
            /\ \A k \in 1..Len(r.ends) : r.ends[k] \notin AttemptErrors
            /\ r.f.end \notin AttemptErrors
            /\ r.res.status \notin AttemptErrors
            /\ r.res.cause \notin AttemptErrors \cup AttemptTexts

\* a batch whose three attempts for the first instrument ended with a
\* timeout has recorded the failure with the reason FetchExhausted
C35_Witness ==
    \E c \in Calls :
        /\ calls[c].route \in BatchRoutes
        /\ calls[c].pc = "delay"
        /\ calls[c].f.reqs = 3 /\ calls[c].f.err = "TIMEOUT"
        /\ Len(calls[c].failed) = 1
        /\ calls[c].failed[1].reason = "FetchExhausted"

\* a chart query whose attempts ended with a rate limit is answered with the
\* cause FetchExhausted
C35_WitnessChart ==
    \E c \in Calls :
        /\ calls[c].route = "chart"
        /\ calls[c].pc = "done"
        /\ calls[c].f.err = "RATE_LIMITED"
        /\ calls[c].res.status = "FetchExhausted"
        /\ calls[c].res.cause = "FetchExhausted"

(***************************************************************************)
(* Period queries around an override, with a provider whose series is a    *)
(* function of the symbol: every close tells the symbol it belongs to.     *)
(***************************************************************************)

\* the January 2000 series the provider has for a symbol
SymbolSeries(symbol) ==
    IF symbol = "^KS11"
    THEN << [date |-> 20000103, close |-> 100], [date |-> 20000104, close |-> 97] >>
    ELSE IF symbol = "^GSPC"
    THEN << [date |-> 20000103, close |-> 200] >>
    ELSE << [date |-> 20000103, close |-> 300] >>

InitSymbol ==
    /\ symbolOverrides = [id \in Ids |-> <<>>]
    /\ cache = << >>
    /\ dailyFileCache = << >>
    /\ cacheSaveScheduled = FALSE
    /\ now = 0
    /\ calls = [c \in Calls |-> IdleCall]
    /\ budget = Environment(MaxRequests, 0, MaxRequests * Len(items), FALSE, 0, MaxOverrideOps, FALSE, 0, 0)
    /\ returnedNR = {}
    /\ newsCache = << >>
    /\ overrideLog = <<>>
    /\ disk = NoFile
    /\ saving = NoSaving
    /\ fn = NoFn

NextSymbol ==
    \/ \E c \in Calls, y \in YearParams, m \in MonthParams : Daily(c, y, m)
    \/ \E c \in Calls, y \in YearParams, m \in MonthParams : Update(c, y, m)
    \/ \E c \in Calls : ChartAnswered(c, SymbolSeries(calls[c].f.symbol))
    \/ \E c \in Calls : DelayDone(c)
    \/ \E id \in Ids, s \in OverrideSymbols : Override(id, s)
    \/ \E id \in Ids : Restore(id)

SpecSymbol == InitSymbol /\ [][NextSymbol]_vars

\* the series of id in the answer of r holds only records of the symbol the
\* items of the same answer give for id
SeriesOfReportedSymbol(r) ==
    \A i \in 1..Len(r.res.items) :
        LET id == r.res.items[i].id
        IN  id \in DOMAIN r.res.data =>
                Records(r.res.data[id])
                    \subseteq Records(parseChart(SymbolSeries(r.res.items[i].symbol)))

\* C36 as stated: in every answer of a period query the series of an
\* instrument was fetched from the symbol the items of that answer give for
\* the instrument, also when the instrument was overridden or restored after
\* a snapshot with a series of its earlier symbol was stored.
C36_SeriesOfReportedSymbol ==
    \A c \in Calls :
        (calls[c].route \in {"daily", "update"} /\ calls[c].pc = "done"
             /\ calls[c].res.status = "ok") => SeriesOfReportedSymbol(calls[c])

\* what holds: while no override or restore was accepted, every answer has
\* the series of the symbols it reports
SeriesOfReportedSymbolWithoutOverride ==
    overrideLog = <<>> => C36_SeriesOfReportedSymbol

(***************************************************************************)
(* Batches and the whitelist while overrides change (Spec).                *)
(***************************************************************************)

\* a batch has a failure record with the reason DisallowedSymbol
RecordsDisallowed(r) ==
    /\ r.route \in BatchRoutes
    /\ \/ \E k \in 1..Len(r.failed) : r.failed[k].reason = "DisallowedSymbol"
       \/ \E k \in 1..Len(r.res.failed) : r.res.failed[k].reason = "DisallowedSymbol"

\* C37 as stated: a batch over the effective items never records a
\* DisallowedSymbol failure, also when an override or a restore is accepted
\* while the batch waits between two instruments.
C37_BatchNeverDisallowed ==
    \A c \in Calls : ~RecordsDisallowed(calls[c])

\* what holds: while no override or restore was accepted, no batch records a
\* DisallowedSymbol failure and every symbol of a batch is allowed
BatchAllowedWithoutOverride ==
    overrideLog = <<>> =>
        \A c \in Calls :
            /\ ~RecordsDisallowed(calls[c])
            /\ \A k \in 1..Len(calls[c].batch) : isSymbolAllowed(calls[c].batch[k].symbol)

(***************************************************************************)
(* The client (public/js/app.js): the selected period, the active tab, the *)
(* table, charts and events views, and the requests in flight.  The state  *)
(* of the page is the record fn.  A response is the pair of the period it  *)
(* is for (json.year, json.month, which the server takes from the request) *)
(* and the number of the request it answers.                               *)
(***************************************************************************)

\* the requests one behaviour of the page sends, and how far Date.now() moves
MaxClientRequests == 4

MaxClock == 1

Tabs == {"table", "chart", "events"}

\* a view that shows no response: nothing yet, the loading row or the
\* failure row
Placeholder(content) == [content |-> content, period |-> 0, req |-> 0]

\* a view that a response was rendered into
Rendered(json) == [content |-> "shown", period |-> json.period, req |-> json.req]

\* fetch(url): the request is sent and the function awaits the response
Send(s, q) ==
    [s EXCEPT !.log = Append(@, q), !.inflight = @ \cup {Len(s.log) + 1}]

\* loadTableData up to its await of fetch
loadTableData(s, forceUpdate) ==
    Send([s EXCEPT !.btnDisabled = TRUE, !.table = Placeholder("loading")],
         [view |-> "table", period |-> s.period, refresh |-> forceUpdate,
          token |-> <<>>, cached |-> FALSE, alreadyShowing |-> FALSE])

renderChartsFromData(s, json, force) ==
    IF ~force /\ s.lastRenderedChartKey = json.period THEN s
    ELSE [s EXCEPT !.lastRenderedChartKey = json.period,
                   !.charts = Rendered(json)]

renderEvents(s, json, force) ==
    IF ~force /\ s.lastRenderedEventsKey = json.period /\ s.events.content # "empty"
    THEN s
    ELSE [s EXCEPT !.lastRenderedEventsKey = json.period,
                   !.events = Rendered(json)]

\* loadAllCharts up to its await of fetch
loadAllCharts(s) ==
    LET key == s.period
        cached == s.dailyCache[key]
        alreadyShowing == s.lastRenderedChartKey = key /\ s.charts.content # "empty"
        s1 == IF alreadyShowing THEN s
              ELSE IF cached # 0
              THEN renderChartsFromData(s, [period |-> key, req |-> cached], FALSE)
              ELSE [s EXCEPT !.charts = Placeholder("loading")]
        token == << key, s.clock >>
    IN  Send([s1 EXCEPT !.chartRequestToken = token],
             [view |-> "chart", period |-> key, refresh |-> FALSE,
              token |-> token, cached |-> cached # 0,
              alreadyShowing |-> alreadyShowing])

\* loadEvents up to its await of fetch
loadEvents(s, forceRefresh) ==
    LET key == s.period
        cached == s.eventsCache[key]
        alreadyShowing == s.lastRenderedEventsKey = key /\ s.events.content # "empty"
        s1 == IF forceRefresh
              THEN [s EXCEPT !.eventsCache = [@ EXCEPT ![key] = 0],
                             !.events = Placeholder("loading")]
              ELSE IF alreadyShowing THEN s
              ELSE IF cached # 0
              THEN renderEvents(s, [period |-> key, req |-> cached], FALSE)
              ELSE [s EXCEPT !.events = Placeholder("loading")]
        token == << key, s.clock >>
    IN  Send([s1 EXCEPT !.eventsRequestToken = token],
             [view |-> "events", period |-> key, refresh |-> forceRefresh,
              token |-> token, cached |-> cached # 0,
              alreadyShowing |-> alreadyShowing])

\* loadTableData from the response of its request on
loadTableDataResumed(s, id, ok) ==
    LET q == s.log[id]
        json == [period |-> q.period, req |-> id]
        s0 == [s EXCEPT !.inflight = @ \ {id}, !.btnDisabled = FALSE]
        s1 == [s0 EXCEPT !.currentData = json,
                         !.dailyCache = [@ EXCEPT ![q.period] = id],
                         !.table = Rendered(json)]
    IN  IF ~ok THEN [s0 EXCEPT !.table = Placeholder("error")]
        ELSE IF s.tab = "chart" /\ s.period = q.period
        THEN renderChartsFromData(s1, json, TRUE)
        ELSE s1

\* loadAllCharts from the response of its request on
loadAllChartsResumed(s, id, ok) ==
    LET q == s.log[id]
        json == [period |-> q.period, req |-> id]
        s0 == [s EXCEPT !.inflight = @ \ {id}]
        s1 == [s0 EXCEPT !.dailyCache = [@ EXCEPT ![q.period] = id]]
    IN  IF ~ok
        THEN IF ~q.cached /\ ~q.alreadyShowing
             THEN [s0 EXCEPT !.charts = Placeholder("error")]
             ELSE s0
        ELSE IF s.chartRequestToken # q.token \/ q.period # s.period THEN s1
        ELSE renderChartsFromData(s1, json, TRUE)

\* loadEvents from the response of its request on; the period the response
\* is compared with is the one of the request
loadEventsResumed(s, id, ok) ==
    LET q == s.log[id]
        json == [period |-> q.period, req |-> id]
        s0 == [s EXCEPT !.inflight = @ \ {id}]
        s1 == [s0 EXCEPT !.eventsCache = [@ EXCEPT ![q.period] = id]]
    IN  IF ~ok
        THEN IF ~q.cached /\ ~q.alreadyShowing
             THEN [s0 EXCEPT !.events = Placeholder("error")]
             ELSE s0
        ELSE IF s.eventsRequestToken # q.token \/ json.period # q.period THEN s1
        ELSE renderEvents(s1, json, TRUE)

\* the page after init(): the current month is selected, the table tab is
\* active and loadTableData() awaits its response
ClientStart ==
    loadTableData(
        [op |-> "client", period |-> getPeriodKey(2000, 1), tab |-> "table",
         clock |-> 0, btnDisabled |-> FALSE, log |-> <<>>, inflight |-> {},
         currentData |-> [period |-> 0, req |-> 0],
         table |-> Placeholder("empty"), charts |-> Placeholder("empty"),
         events |-> Placeholder("empty"),
         dailyCache |-> [k \in PeriodKeys |-> 0],
         eventsCache |-> [k \in PeriodKeys |-> 0],
         lastRenderedChartKey |-> 0, lastRenderedEventsKey |-> 0,
         chartRequestToken |-> <<>>, eventsRequestToken |-> <<>>],
        FALSE)

InitClient ==
    /\ Quiet
    /\ fn = ClientStart

\* what an action of the page leaves alone
ServerUnchanged ==
    UNCHANGED << newsCache, symbolOverrides, cache, dailyFileCache,
                 cacheSaveScheduled, now, calls, budget, returnedNR,
                 overrideLog, disk, saving >>

\* the page goes to s when s sends no more requests than the bound
ClientGoes(s) ==
    /\ Len(s.log) <= MaxClientRequests
    /\ fn' = s
    /\ ServerUnchanged

\* onPeriodChange: the user selects another year or month
PeriodChange(period) ==
    LET s1 == loadTableData([fn EXCEPT !.period = period], FALSE)
        s2 == IF s1.tab = "chart" THEN loadAllCharts(s1) ELSE s1
        s3 == IF s2.tab = "events" THEN loadEvents(s2, FALSE) ELSE s2
    IN  /\ fn.op = "client"
        /\ period # fn.period
        /\ ClientGoes(s3)

\* the click handler of a tab
TabClick(tab) ==
    LET s1 == [fn EXCEPT !.tab = tab]
    IN  /\ fn.op = "client"
        /\ ClientGoes(IF tab = "chart" THEN loadAllCharts(s1)
                      ELSE IF tab = "events" THEN loadEvents(s1, FALSE)
                      ELSE s1)

\* the click handler of btnUpdate, which is disabled while a loadTableData
\* call that has not ended disabled it last
UpdateClick ==
    LET s1 == loadTableData(fn, TRUE)
    IN  /\ fn.op = "client"
        /\ ~fn.btnDisabled
        /\ ClientGoes(IF s1.tab = "events" THEN loadEvents(s1, TRUE) ELSE s1)

\* the response of request id arrives, with success or not
ClientResponse(id, ok) ==
    /\ fn.op = "client"
    /\ id \in fn.inflight
    /\ fn' = IF fn.log[id].view = "table" THEN loadTableDataResumed(fn, id, ok)
             ELSE IF fn.log[id].view = "chart" THEN loadAllChartsResumed(fn, id, ok)
             ELSE loadEventsResumed(fn, id, ok)
    /\ ServerUnchanged

\* Date.now() moves on
ClockTick ==
    /\ fn.op = "client"
    /\ fn.clock < MaxClock
    /\ fn' = [fn EXCEPT !.clock = @ + 1]
    /\ ServerUnchanged

NextClient ==
    \/ \E period \in PeriodKeys : PeriodChange(period)
    \/ \E tab \in Tabs : TabClick(tab)
    \/ UpdateClick
    \/ \E id \in 1..MaxClientRequests, ok \in BOOLEAN : ClientResponse(id, ok)
    \/ ClockTick

SpecClient == InitClient /\ [][NextClient]_vars

\* the step is the arrival of a response
ResponseArrives == fn'.log = fn.log /\ fn'.inflight # fn.inflight

\* the last request the function of request id has sent
LatestOf(s, id) ==
    CHOOSE k \in 1..Len(s.log) :
        /\ s.log[k].view = s.log[id].view
        /\ \A j \in 1..Len(s.log) : s.log[j].view = s.log[id].view => j <= k

\* a response that is not for the selected period or that answers a request
\* with a later one of the same function
Stale(s, json) ==
    \/ json.period # s.period
    \/ json.req # LatestOf(s, json.req)

\* C38 as stated: when a response arrives, it is rendered into the table,
\* the charts or the events view, or made currentData (which the export
\* reads), only when it is for the selected period and answers the last
\* request of its function.
C38_NoStaleRender ==
    [][(fn.op = "client" /\ ResponseArrives) =>
           /\ (fn'.table # fn.table /\ fn'.table.content = "shown") =>
                  ~Stale(fn', fn'.table)
           /\ (fn'.charts # fn.charts /\ fn'.charts.content = "shown") =>
                  ~Stale(fn', fn'.charts)
           /\ (fn'.events # fn.events /\ fn'.events.content = "shown") =>
                  ~Stale(fn', fn'.events)
           /\ fn'.currentData # fn.currentData => ~Stale(fn', fn'.currentData)]_vars

\* the request whose response arrives in the step
Arrived == CHOOSE id \in fn.inflight : id \notin fn'.inflight

\* what holds of loadAllCharts and loadEvents: the response of a request of
\* loadAllCharts is rendered only when it is for the selected period and no
\* later call of loadAllCharts has set another token; the response of a
\* request of loadEvents is rendered only when no later call of loadEvents
\* has set another token
TokenGuardsChartsAndEvents ==
    [][(fn.op = "client" /\ ResponseArrives) =>
           /\ (/\ fn.log[Arrived].view = "chart"
               /\ fn'.charts # fn.charts /\ fn'.charts.content = "shown") =>
                  /\ fn'.charts.period = fn.period
                  /\ fn.log[Arrived].token = fn.chartRequestToken
           /\ (/\ fn.log[Arrived].view = "events"
               /\ fn'.events # fn.events /\ fn'.events.content = "shown") =>
                  fn.log[Arrived].token = fn.eventsRequestToken]_vars

(***************************************************************************)
(* POST /api/symbols/override with every way it can end (SpecOverrideEnds).*)
(***************************************************************************)

\* what a request body may carry for id and for symbol: the values of the
\* overlay model, and nothing
BodyIds == OverrideIds \cup {""}

BodySymbols == OverrideSymbols \cup {""}

\* how the I/O of one request goes: the provider has data for the symbol and
\* both file operations succeed; the provider has none (or the request to it
\* fails); fs.mkdir fails; fs.writeFile of the overrides file fails
OverrideEnds == {"ok", "noData", "mkdirFails", "writeFails"}

\* the whole handler of POST /api/symbols/override for the body { id, symbol }
OverrideRequest(id, symbol, end) ==
    LET rejected(error) ==
            [op |-> "override", id |-> id, symbol |-> symbol, status |-> 400,
             items |-> <<>>, error |-> error]
        assigned == [symbolOverrides EXCEPT
                        ![id] = << [symbol |-> symbol, name |-> symbol] >>]
    IN  /\ budget.overrideOps > 0
        /\ budget' = [budget EXCEPT !.overrideOps = @ - 1]
        /\ IF id = "" \/ symbol = ""
           THEN /\ symbolOverrides' = symbolOverrides
                /\ overrideLog' = Append(overrideLog, rejected("MissingInput"))
           ELSE IF id \notin Ids
           THEN /\ symbolOverrides' = symbolOverrides
                /\ overrideLog' = Append(overrideLog, rejected("UnknownItem"))
           ELSE IF end \in {"noData", "mkdirFails"}
           THEN /\ symbolOverrides' = symbolOverrides
                /\ overrideLog' = Append(overrideLog, rejected(end))
           ELSE /\ symbolOverrides' = assigned
                /\ overrideLog' =
                       Append(overrideLog,
                              IF end = "writeFails" THEN rejected(end)
                              ELSE [op |-> "override", id |-> id,
                                    symbol |-> symbol, status |-> 200,
                                    items |-> EffectiveItems(assigned),
                                    error |-> ""])
        /\ UNCHANGED << newsCache, cache, dailyFileCache, cacheSaveScheduled,
                        now, calls, returnedNR, fn, disk, saving >>

NextOverrideEnds ==
    \/ \E id \in BodyIds, s \in BodySymbols, end \in OverrideEnds :
           OverrideRequest(id, s, end)
    \/ \E id \in Ids : Restore(id)

SpecOverrideEnds == InitOverride /\ [][NextOverrideEnds]_vars

\* the step is an override request that is answered with an error
OverrideRejected ==
    /\ Len(overrideLog') = Len(overrideLog) + 1
    /\ Last(overrideLog').op = "override"
    /\ Last(overrideLog').status # 200

\* C39 as stated: an override request that is answered with an error leaves
\* the overrides in memory, and with them the effective items and the
\* whitelist, as they were.
C39_RejectedOverrideChangesNothing ==
    [][OverrideRejected => symbolOverrides' = symbolOverrides]_vars

\* what holds: a request that is rejected for a missing id or symbol, for an
\* unknown id, by the validation of the symbol or by fs.mkdir leaves the
\* overrides as they were
RejectedBeforeWriteChangesNothing ==
    [][(OverrideRejected /\ Last(overrideLog').error # "writeFails") =>
           symbolOverrides' = symbolOverrides]_vars

====
